---- MODULE Spec2Model ----
(***************************************************************************)
(* A model of ljson (include/ljson.hpp): the scalar ljson::value, the      *)
(* ljson::node handle with its shared containers, and the character-driven *)
(* parser of ljson::parser.                                                *)
(*                                                                         *)
(* Text is a sequence of one-character strings.  Shared ownership is a     *)
(* heap: a std::shared_ptr is an address (an index into the sequence       *)
(* heap), a node is the pair of its active variant alternative and that    *)
(* address.                                                                *)
(***************************************************************************)
EXTENDS Integers, Sequences, FiniteSets, TLC

VARIABLES
    heap,      \* the cells every shared_ptr of the run points into
    hs,        \* the caller's ljson::node variables: name -> node
    origin,    \* per variable: the (container, key) entry it was copied from
    last,      \* the last API call of the caller and what it returned
    raw_json,  \* the text given to parser::try_parse
    pos,       \* try_parse's index i into raw_json (0-based)
    data,      \* struct parsing_data
    pc,        \* where try_parse stands
    outcome,   \* what try_parse returned
    out        \* the text node::dump handed to out_func

vars == <<heap, hs, origin, last, raw_json, pos, data, pc, outcome, out>>

----------------------------------------------------------------------------
(* Characters and text.                                                    *)

Digits == <<"0", "1", "2", "3", "4", "5", "6", "7", "8", "9">>
Letters ==
    <<"a", "b", "c", "d", "e", "f", "g", "h", "i", "j", "k", "l", "m",
      "n", "o", "p", "q", "r", "s", "t", "u", "v", "w", "x", "y", "z">>

IndexIn(seq, c) == CHOOSE i \in 1..Len(seq) : seq[i] = c
IsIn(seq, c) == \E i \in 1..Len(seq) : seq[i] = c

\* std::isdigit
isdigit(c) == IsIn(Digits, c)

\* The character "SOH" stands for the byte 0x01.
SOH == "SOH"

\* The byte value of a character (ASCII).
CharCode(c) ==
    CASE isdigit(c) -> 47 + IndexIn(Digits, c)
      [] IsIn(Letters, c) -> 96 + IndexIn(Letters, c)
      [] c = SOH -> 1
      [] c = "\t" -> 9
      [] c = "\n" -> 10
      [] c = " " -> 32
      [] c = "\"" -> 34
      [] c = "," -> 44
      [] c = "-" -> 45
      [] c = "." -> 46
      [] c = "/" -> 47
      [] c = ":" -> 58
      [] c = "[" -> 91
      [] c = "\\" -> 92
      [] c = "]" -> 93
      [] c = "{" -> 123
      [] c = "}" -> 125

\* std::string's operator<: lexicographic by byte value.
RECURSIVE StringLess(_, _)
StringLess(a, b) ==
    IF b = <<>> THEN FALSE
    ELSE IF a = <<>> THEN TRUE
    ELSE IF CharCode(Head(a)) # CharCode(Head(b))
        THEN CharCode(Head(a)) < CharCode(Head(b))
    ELSE StringLess(Tail(a), Tail(b))

\* The keys of a std::map iterated from the greatest to the least.
RECURSIVE SortedKeysDescending(_)
SortedKeysDescending(S) ==
    IF S = {} THEN <<>>
    ELSE LET m == CHOOSE x \in S : \A y \in S \ {x} : StringLess(y, x)
         IN <<m>> \o SortedKeysDescending(S \ {m})

\* The keys of a std::map in its iteration order.
RECURSIVE SortedKeys(_)
SortedKeys(S) ==
    IF S = {} THEN <<>>
    ELSE LET m == CHOOSE x \in S : \A y \in S \ {x} : StringLess(x, y)
         IN <<m>> \o SortedKeys(S \ {m})

----------------------------------------------------------------------------
(* Scalars: class value.                                                   *)

\* enum class value_type
value_types ==
    {"none", "string", "number", "integer", "double_t", "null", "boolean",
     "temp_escape_type", "unknown"}

\* The alternatives of value::value_type_variant, by held type.
value_alternatives == {"string", "double", "int64", "bool", "null_type", "monostate"}

\* A value: its _type tag and its _value variant (alt is the active
\* alternative; s, n, d, b are the payload of the string, int64_t, double and
\* bool alternatives; a double is kept in millionths, the precision
\* std::to_string prints).
MkValue(type, alt, s, n, d, b) ==
    [type |-> type, alt |-> alt, s |-> s, n |-> n, d |-> d, b |-> b]

\* value::value(): monostate, value_type::none.
EmptyValue == MkValue("none", "monostate", <<>>, 0, 0, FALSE)

\* value::set_state(const val_type&) for each allowed C++ type.
StringValue(s) == MkValue("string", "string", s, 0, 0, FALSE)
IntegerValue(n) == MkValue("integer", "int64", <<>>, n, 0, FALSE)
DoubleValue(d) == MkValue("double_t", "double", <<>>, 0, d, FALSE)
BooleanValue(b) == MkValue("boolean", "bool", <<>>, 0, 0, b)
NullValue == MkValue("null", "null_type", <<>>, 0, 0, FALSE)

value_is_string(v) == v.alt = "string"
value_is_double(v) == v.alt = "double"
value_is_integer(v) == v.alt = "int64"
\* value::is_number that forgets the integers.
value_is_number_double_only(v) == v.alt = "double"

value_is_number(v) == v.alt = "double" \/ v.alt = "int64"
value_is_boolean(v) == v.alt = "bool"
value_is_null(v) == v.alt = "null_type"
value_is_empty(v) == v.alt = "monostate"

\* The result of a fallible call: ok with a value, or an ljson::error kind.
Ok(v) == [ok |-> TRUE, v |-> v, err |-> "none"]
Err(kind) == [ok |-> FALSE, v |-> EmptyValue, err |-> kind]

\* value::try_as_string .. value::try_as_null: the payload as a value of the
\* asked kind, or wrong_type.  try_as_number converts an int64_t to double.
value_try_as(v, X) ==
    CASE X = "string" ->
            IF ~value_is_string(v) THEN Err("wrong_type") ELSE Ok(StringValue(v.s))
      [] X = "number" ->
            IF ~value_is_number(v) THEN Err("wrong_type")
            ELSE IF value_is_double(v) THEN Ok(DoubleValue(v.d))
            ELSE Ok(DoubleValue(v.n * 1000000))
      [] X = "integer" ->
            IF ~value_is_integer(v) THEN Err("wrong_type") ELSE Ok(IntegerValue(v.n))
      [] X = "double" ->
            IF ~value_is_double(v) THEN Err("wrong_type") ELSE Ok(DoubleValue(v.d))
      [] X = "boolean" ->
            IF ~value_is_boolean(v) THEN Err("wrong_type") ELSE Ok(BooleanValue(v.b))
      [] X = "null" ->
            IF ~value_is_null(v) THEN Err("wrong_type") ELSE Ok(NullValue)

----------------------------------------------------------------------------
(* Nodes and the heap.                                                     *)

\* enum class node_type
node_types == {"object", "array", "value"}

\* A node: the active alternative of json_node and the shared_ptr it holds.
MkNode(t, p) == [t |-> t, p |-> p]

\* No node: a caller variable that is not declared yet.
NoNode == MkNode("nil", 0)

\* The empty std::map / std::vector.
EmptyMap == [k \in {} |-> NoNode]

\* A heap cell is what one shared_ptr owns: a value, an ljson::array
\* (json_array, a vector of nodes) or an ljson::object (json_object, a
\* std::map from key to node).
ValueCell(v) == [k |-> "value", val |-> v, elems |-> <<>>, map |-> EmptyMap]
ArrayCell(elems) == [k |-> "array", val |-> EmptyValue, elems |-> elems, map |-> EmptyMap]
ObjectCell(map) == [k |-> "object", val |-> EmptyValue, elems |-> <<>>, map |-> map]

\* std::make_shared: the cell is put at a fresh address.
Alloc(h, cell) == [heap |-> Append(h, cell), p |-> Len(h) + 1]

node_is_value(n) == n.t = "value"
node_is_array(n) == n.t = "array"
node_is_object(n) == n.t = "object"

\* node::type() that reports an object as an array.
node_type_of_confused(n) ==
    IF node_is_value(n) THEN "value"
    ELSE IF node_is_object(n) THEN "array"
    ELSE "object"

\* node::type(): value, else array, else object.
node_type_of(n) ==
    IF node_is_value(n) THEN "value"
    ELSE IF node_is_array(n) THEN "array"
    ELSE "object"

\* node::node(enum node_type).
node_ctor_type(h, type) ==
    LET cell == CASE type = "value" -> ValueCell(EmptyValue)
                  [] type = "array" -> ArrayCell(<<>>)
                  [] type = "object" -> ObjectCell(EmptyMap)
        a == Alloc(h, cell)
    IN [heap |-> a.heap, node |-> MkNode(type, a.p)]

\* node::is_value / is_array / is_object, by the asked kind.
node_is_kind(n, kind) ==
    CASE kind = "value" -> node_is_value(n)
      [] kind = "array" -> node_is_array(n)
      [] kind = "object" -> node_is_object(n)

\* node::try_as_value / try_as_array / try_as_object on a node: the held
\* shared_ptr, or wrong_type.
node_try_as(n, kind) ==
    IF ~node_is_kind(n, kind)
        THEN [ok |-> FALSE, p |-> 0, err |-> "wrong_type"]
        ELSE [ok |-> TRUE, p |-> n.p, err |-> "none"]

\* node::access_value with value::try_as_X: node::try_as_string and the like.
node_try_as_scalar(h, n, X) ==
    LET val == node_try_as(n, "value")
    IN IF ~val.ok THEN Err(val.err) ELSE value_try_as(h[val.p].val, X)

\* object::insert that leaves the new entry alone in the map.
object_insert_clearing(h, p, key, element) ==
    [h EXCEPT ![p].map = (key :> element)]

\* object::insert that keeps the entry a key already has.
object_insert_keeping(h, p, key, element) ==
    [h EXCEPT ![p].map = @ @@ (key :> element)]

\* object::insert: _object[key] = element.
object_insert(h, p, key, element) ==
    [h EXCEPT ![p].map = (key :> element) @@ @]

\* array::push_back that puts the element first.
array_push_front(h, p, element) ==
    [h EXCEPT ![p].elems = <<element>> \o @]

\* array::push_back.
array_push_back(h, p, element) ==
    [h EXCEPT ![p].elems = Append(@, element)]

\* node::add_node_to_key.
add_node_to_key(h, this, key, n) ==
    IF ~node_is_object(this)
        THEN [heap |-> h, ok |-> FALSE, node |-> NoNode, err |-> "wrong_type"]
        ELSE [heap |-> object_insert(h, this.p, key, n), ok |-> TRUE, node |-> n,
              err |-> "none"]

\* node::add_node_to_array(const node&).
add_node_to_array(h, this, n) ==
    IF ~node_is_array(this)
        THEN [heap |-> h, ok |-> FALSE, node |-> NoNode, err |-> "wrong_type"]
        ELSE [heap |-> array_push_back(h, this.p, n), ok |-> TRUE, node |-> n,
              err |-> "none"]

\* node::add_object_to_key, node::add_array_to_key: a new empty container
\* stored under key.
add_container_to_key(h, this, key, type) ==
    IF ~node_is_object(this)
        THEN [heap |-> h, ok |-> FALSE, node |-> NoNode, err |-> "wrong_type"]
        ELSE LET c == node_ctor_type(h, type)
             IN [heap |-> object_insert(c.heap, this.p, key, c.node), ok |-> TRUE,
                 node |-> c.node, err |-> "none"]

add_object_to_key(h, this, key) == add_container_to_key(h, this, key, "object")
add_array_to_key(h, this, key) == add_container_to_key(h, this, key, "array")

\* node::add_object_to_array.
add_object_to_array(h, this) ==
    IF ~node_is_array(this)
        THEN [heap |-> h, ok |-> FALSE, node |-> NoNode, err |-> "wrong_type"]
        ELSE LET c == node_ctor_type(h, "object")
             IN [heap |-> array_push_back(c.heap, this.p, c.node), ok |-> TRUE,
                 node |-> c.node, err |-> "none"]

----------------------------------------------------------------------------
(* Arguments of the templated members: a container_or_node_type.           *)

\* What the caller passes: a scalar (std::string, const char*, an arithmetic
\* type, bool, null_type or a class value), an ljson::node, a sequence
\* container of scalars (is_value_container) or a key/value container of
\* scalars (is_key_value_container).
ValueArg(v) == [c |-> "value", v |-> v, n |-> NoNode, q |-> <<>>, m |-> EmptyMap]
NodeArg(n) == [c |-> "node", v |-> EmptyValue, n |-> n, q |-> <<>>, m |-> EmptyMap]
SeqArg(q) == [c |-> "seq", v |-> EmptyValue, n |-> NoNode, q |-> q, m |-> EmptyMap]
MapArg(m) == [c |-> "map", v |-> EmptyValue, n |-> NoNode, q |-> <<>>, m |-> m]

\* The loop of setting_allowed_node_type over a sequence container:
\* this->push_back(node(value)) for each element.
RECURSIVE push_back_values(_, _, _)
push_back_values(h, p, q) ==
    IF q = <<>> THEN h
    ELSE LET a == Alloc(h, ValueCell(Head(q)))
         IN push_back_values(array_push_back(a.heap, p, MkNode("value", a.p)), p, Tail(q))

\* The loop of setting_allowed_node_type over a key/value container:
\* this->insert(key, node(value)) for each pair, in the container's order.
RECURSIVE insert_values(_, _, _, _)
insert_values(h, p, keys, m) ==
    IF keys = <<>> THEN h
    ELSE LET a == Alloc(h, ValueCell(m[Head(keys)]))
         IN insert_values(object_insert(a.heap, p, Head(keys), MkNode("value", a.p)),
                          p, Tail(keys), m)

\* node::setting_allowed_node_type that takes a copy of what a node argument
\* holds instead of its shared_ptr.
setting_allowed_node_type_copying(h, x) ==
    CASE x.c = "seq" ->
            LET a == Alloc(h, ArrayCell(<<>>))
            IN [heap |-> push_back_values(a.heap, a.p, x.q), node |-> MkNode("array", a.p)]
      [] x.c = "map" ->
            LET a == Alloc(h, ObjectCell(EmptyMap))
            IN [heap |-> insert_values(a.heap, a.p, SortedKeys(DOMAIN x.m), x.m),
                node |-> MkNode("object", a.p)]
      [] x.c = "value" ->
            LET a == Alloc(h, ValueCell(x.v))
            IN [heap |-> a.heap, node |-> MkNode("value", a.p)]
      [] x.c = "node" ->
            LET a == Alloc(h, h[x.n.p])
            IN [heap |-> a.heap, node |-> MkNode(x.n.t, a.p)]

\* node::setting_allowed_node_type that makes an empty value of a scalar.
setting_allowed_node_type_empty_value(h, x) ==
    CASE x.c = "seq" ->
            LET a == Alloc(h, ArrayCell(<<>>))
            IN [heap |-> push_back_values(a.heap, a.p, x.q), node |-> MkNode("array", a.p)]
      [] x.c = "map" ->
            LET a == Alloc(h, ObjectCell(EmptyMap))
            IN [heap |-> insert_values(a.heap, a.p, SortedKeys(DOMAIN x.m), x.m),
                node |-> MkNode("object", a.p)]
      [] x.c = "value" ->
            LET a == Alloc(h, ValueCell(EmptyValue))
            IN [heap |-> a.heap, node |-> MkNode("value", a.p)]
      [] x.c = "node" ->
            [heap |-> h, node |-> x.n]

\* node::setting_allowed_node_type: the _node this node holds afterwards.
setting_allowed_node_type(h, x) ==
    CASE x.c = "seq" ->
            LET a == Alloc(h, ArrayCell(<<>>))
            IN [heap |-> push_back_values(a.heap, a.p, x.q), node |-> MkNode("array", a.p)]
      [] x.c = "map" ->
            LET a == Alloc(h, ObjectCell(EmptyMap))
            IN [heap |-> insert_values(a.heap, a.p, SortedKeys(DOMAIN x.m), x.m),
                node |-> MkNode("object", a.p)]
      [] x.c = "value" ->
            LET a == Alloc(h, ValueCell(x.v))
            IN [heap |-> a.heap, node |-> MkNode("value", a.p)]
      [] x.c = "node" ->
            [heap |-> h, node |-> x.n]

\* node::insert(key, value): node n(value), then add_node_to_key.  The
\* temporary n is dropped when the call fails.
node_insert(h, this, key, x) ==
    LET n == setting_allowed_node_type(h, x)
        r == add_node_to_key(n.heap, this, key, n.node)
    IN IF r.ok THEN r ELSE [r EXCEPT !.heap = h]

\* node::push_back(value): node n(value), then add_node_to_array.
node_push_back(h, this, x) ==
    LET n == setting_allowed_node_type(h, x)
        r == add_node_to_array(n.heap, this, n.node)
    IN IF r.ok THEN r ELSE [r EXCEPT !.heap = h]

\* node::operator= that drops the other members of the object.
assign_member_clearing(h, p, key, element) == [h EXCEPT ![p].map = (key :> element)]

\* node::operator= on the reference node::at(key) returned: the member of
\* the object at p is the node that holds _node, which is replaced.
assign_member(h, p, key, element) == [h EXCEPT ![p].map[key] = element]

\* node::operator= on the reference node::at(index) returned.
assign_element(h, p, index, element) == [h EXCEPT ![p].elems[index + 1] = element]

\* node::contains that answers true on every node.
node_contains_always(h, this, key) == TRUE

\* node::contains.
node_contains(h, this, key) ==
    LET obj == node_try_as(this, "object")
    IN IF ~obj.ok THEN FALSE ELSE key \in DOMAIN h[obj.p].map

\* node::at(const std::string&) that reports a missing key as a wrong type.
node_at_key_wrong_type(h, this, key) ==
    LET obj == node_try_as(this, "object")
    IN IF ~obj.ok \/ key \notin DOMAIN h[obj.p].map
           THEN [ok |-> FALSE, err |-> "wrong_type", p |-> 0, node |-> NoNode]
       ELSE [ok |-> TRUE, err |-> "none", p |-> obj.p, node |-> h[obj.p].map[key]]

\* node::at(const std::string&): a reference to the node stored under the key
\* (the place is the container's address p and the key), or the thrown error.
node_at_key(h, this, key) ==
    LET obj == node_try_as(this, "object")
    IN IF ~obj.ok
           THEN [ok |-> FALSE, err |-> obj.err, p |-> 0, node |-> NoNode]
       ELSE IF key \notin DOMAIN h[obj.p].map
           THEN [ok |-> FALSE, err |-> "key_not_found", p |-> 0, node |-> NoNode]
       ELSE [ok |-> TRUE, err |-> "none", p |-> obj.p, node |-> h[obj.p].map[key]]

\* node::at(const size_t): a reference to the element (the place is the
\* container's address p and the index), or the thrown error.
node_at_index(h, this, index) ==
    LET arr == node_try_as(this, "array")
    IN IF ~arr.ok
           THEN [ok |-> FALSE, err |-> arr.err, p |-> 0, node |-> NoNode]
       ELSE IF index >= Len(h[arr.p].elems)
           THEN [ok |-> FALSE, err |-> "key_not_found", p |-> 0, node |-> NoNode]
       ELSE [ok |-> TRUE, err |-> "none", p |-> arr.p, node |-> h[arr.p].elems[index + 1]]

----------------------------------------------------------------------------
(* What a node holds, as a tree: the observable content of a document.     *)

\* The addresses reachable from a node.
RECURSIVE Reach(_, _)
Reach(h, n) ==
    IF n.t = "nil" THEN {}
    ELSE {n.p} \cup
         (IF n.t = "array"
             THEN UNION {Reach(h, h[n.p].elems[i]) : i \in 1..Len(h[n.p].elems)}
          ELSE IF n.t = "object"
             THEN UNION {Reach(h, h[n.p].map[k]) : k \in DOMAIN h[n.p].map}
          ELSE {})

\* The tree under a node: kind, scalar, elements, members.
RECURSIVE Content(_, _)
Content(h, n) ==
    [t |-> n.t,
     val |-> IF n.t = "value" THEN h[n.p].val ELSE EmptyValue,
     elems |-> IF n.t = "array"
                  THEN [i \in 1..Len(h[n.p].elems) |-> Content(h, h[n.p].elems[i])]
                  ELSE <<>>,
     map |-> IF n.t = "object"
                THEN [k \in DOMAIN h[n.p].map |-> Content(h, h[n.p].map[k])]
                ELSE <<>>]

\* The tree an argument denotes.
ArgContent(h, x) ==
    CASE x.c = "value" -> [t |-> "value", val |-> x.v, elems |-> <<>>, map |-> <<>>]
      [] x.c = "node" -> Content(h, x.n)
      [] x.c = "seq" ->
            [t |-> "array", val |-> EmptyValue,
             elems |-> [i \in 1..Len(x.q) |->
                          [t |-> "value", val |-> x.q[i], elems |-> <<>>, map |-> <<>>]],
             map |-> <<>>]
      [] x.c = "map" ->
            [t |-> "object", val |-> EmptyValue, elems |-> <<>>,
             map |-> [k \in DOMAIN x.m |->
                        [t |-> "value", val |-> x.m[k], elems |-> <<>>, map |-> <<>>]]]

----------------------------------------------------------------------------
(* Serialization: value::stringify and node::dump.                         *)

\* std::string::pop_back
pop_back(str) == SubSeq(str, 1, Len(str) - 1)

\* The decimal digits of a natural number.
RECURSIVE NatDigits(_)
NatDigits(n) ==
    IF n < 10 THEN <<Digits[n + 1]>> ELSE NatDigits(n \div 10) \o <<Digits[(n % 10) + 1]>>

\* std::to_string(int64_t)
to_string_integer(n) == IF n < 0 THEN <<"-">> \o NatDigits(-n) ELSE NatDigits(n)

\* std::to_string(double), which prints as "%f": six digits after the point.
\* The double is held in millionths.
to_string_double(d) ==
    IF d < 0
        THEN <<"-">> \o NatDigits((-d) \div 1000000) \o <<".">>
                 \o Tail(NatDigits(1000000 + ((-d) % 1000000)))
        ELSE NatDigits(d \div 1000000) \o <<".">> \o Tail(NatDigits(1000000 + (d % 1000000)))

\* The loop of pop_zeros_at_the_end in value::stringify: i walks from the
\* last index of the text down to 0 while pop_back shortens the text.
RECURSIVE pop_zeros_loop(_, _, _)
pop_zeros_next(str, i, found_zero) ==
    IF i = 0 THEN str ELSE pop_zeros_loop(str, i - 1, found_zero)

pop_zeros_loop(str, i, found_zero) ==
    IF str[i + 1] = "0" /\ ~found_zero THEN pop_zeros_next(str, i, TRUE)
    ELSE IF str[i + 1] = "0" /\ found_zero THEN pop_zeros_next(pop_back(str), i, TRUE)
    ELSE IF found_zero THEN pop_zeros_next(pop_back(str), i, FALSE)
    ELSE str

\* pop_zeros_at_the_end, its end: a text left ending in '.' gets a "0".
point_zero(str) == IF str # <<>> /\ str[Len(str)] = "." THEN str \o <<"0">> ELSE str

pop_zeros_at_the_end(str) == point_zero(pop_zeros_loop(str, Len(str) - 1, FALSE))

\* value::stringify
stringify(v) ==
    IF value_is_double(v) THEN pop_zeros_at_the_end(to_string_double(v.d))
    ELSE IF value_is_integer(v) THEN to_string_integer(v.n)
    ELSE IF value_is_string(v) THEN v.s
    ELSE IF value_is_boolean(v) THEN (IF v.b THEN <<"t", "r", "u", "e">>
                                             ELSE <<"f", "a", "l", "s", "e">>)
    ELSE IF value_is_null(v) THEN <<"n", "u", "l", "l">>
    ELSE <<>>

\* indent_conf, by default {' ', 4}.
indent_conf == [first |-> " ", second |-> 4]

\* std::string(count, indent_conf.first)
Indentation(count) == [k \in 1..count |-> indent_conf.first]

\* dump_val on a shared_ptr<value>: a string goes between quotes.
dump_value(v) ==
    IF v.type = "string" THEN <<"\"">> \o stringify(v) \o <<"\"">> ELSE stringify(v)

\* node::dump: the text handed to out_func, piece after piece.
RECURSIVE dump(_, _, _)
RECURSIVE dump_members(_, _, _, _, _)
RECURSIVE dump_elements(_, _, _, _)

\* The loop over the members of an object, from the count-th key on.
dump_members(h, map, keys, count, indent) ==
    IF count > Len(keys) THEN <<>>
    ELSE Indentation(indent + indent_conf.second) \o <<"\"">> \o keys[count] \o <<"\"", ":", " ">>
         \o dump(h, map[keys[count]], indent + indent_conf.second)
         \o (IF count # Len(keys) THEN <<",">> ELSE <<>>)
         \o <<"\n">>
         \o dump_members(h, map, keys, count + 1, indent)

\* The loop over the elements of an array, from the count-th on.
dump_elements(h, vector, count, indent) ==
    IF count > Len(vector) THEN <<>>
    ELSE Indentation(indent + indent_conf.second)
         \o dump(h, vector[count], indent + indent_conf.second)
         \o (IF count # Len(vector) THEN <<",">> ELSE <<>>)
         \o <<"\n">>
         \o dump_elements(h, vector, count + 1, indent)

dump(h, n, indent) ==
    IF node_is_object(n)
        THEN <<"{", "\n">>
             \o dump_members(h, h[n.p].map, SortedKeys(DOMAIN h[n.p].map), 1, indent)
             \o Indentation(indent) \o <<"}">>
    ELSE IF node_is_array(n)
        THEN <<"[", "\n">> \o dump_elements(h, h[n.p].elems, 1, indent)
             \o Indentation(indent) \o <<"]">>
    ELSE IF node_is_value(n) THEN dump_value(h[n.p].val)
    ELSE <<>>

\* node::dump_to_string
dump_to_string(h, n) == dump(h, n, 0)

----------------------------------------------------------------------------
(* The caller: a program that holds node variables and calls the API.      *)

\* Bounds of the caller's program.
MaxOps == 2

HandleNames == {"node", "a", "b"}
Keys == {<<"k">>, <<"j">>}

\* The scalars the caller passes, and those a document starts with.
ArgScalars == {IntegerValue(1), NullValue}
InitScalars == {IntegerValue(5), StringValue(<<"c">>), BooleanValue(TRUE)}
Indices == {0, 1}

\* The containers the caller passes: a std::vector<int>, a
\* std::map<std::string, std::string>.
ArgSeq == SeqArg(<<IntegerValue(1), IntegerValue(2)>>)
ArgMap == MapArg((<<"j">> :> StringValue(<<"s">>)))

Declared(h) == hs[h] # NoNode

\* An argument with the caller variable it names ("" for a temporary).
ArgChoices ==
    {<<ValueArg(v), "">> : v \in ArgScalars}
        \cup {<<ArgSeq, "">>, <<ArgMap, "">>}
        \cup {<<NodeArg(hs[h]), h>> : h \in {g \in HandleNames : Declared(g)}}

NoOrigin == [via |-> "none", src |-> "", key |-> <<>>]
NoArg == ValueArg(EmptyValue)

\* The record of a call: what was called on which variable, and what came
\* back (a failed call leaves nothing but its error).
Last(op, h, key, index, x, ok, err, org) ==
    [n |-> last.n + 1, op |-> op, h |-> h, key |-> key, index |-> index,
     x |-> IF ok THEN x ELSE NoArg, ok |-> ok, err |-> err, val |-> EmptyValue,
     origin |-> IF ok THEN org ELSE NoOrigin]

ParserIdle ==
    /\ raw_json = <<>>
    /\ pos = 0
    /\ data = <<>>
    /\ pc = "idle"
    /\ outcome = "none"
    /\ out = <<>>

\* The documents a run starts with:
\*   ljson::node node;  node.insert("k", x);  node.insert("j", 7);
\*   ljson::node b(btype);
InitTree(x, btype) ==
    LET n0 == node_ctor_type(<<>>, "object")
        r1 == node_insert(n0.heap, n0.node, <<"k">>, x)
        r2 == node_insert(r1.heap, n0.node, <<"j">>, ValueArg(IntegerValue(7)))
        b == node_ctor_type(r2.heap, btype)
    IN [heap |-> b.heap, node |-> n0.node, b |-> b.node]

InitArgs == {ValueArg(v) : v \in InitScalars} \cup {ArgSeq, ArgMap}

Init ==
    /\ \E x \in InitArgs, btype \in {"array", "object"} :
          LET t == InitTree(x, btype)
          IN /\ heap = t.heap
             /\ hs = [h \in HandleNames |->
                        IF h = "node" THEN t.node ELSE IF h = "b" THEN t.b ELSE NoNode]
    /\ origin = [h \in HandleNames |-> NoOrigin]
    /\ last = [n |-> 0, op |-> "init", h |-> "", key |-> <<>>, index |-> 0, x |-> NoArg,
               ok |-> TRUE, err |-> "none", val |-> EmptyValue, origin |-> NoOrigin]
    /\ ParserIdle

ParserUnchanged == UNCHANGED <<raw_json, pos, data, pc, outcome, out>>

\* The entry an origin names is the entry (h, key): the same container, the
\* same key.
SameEntry(org, h, key) ==
    /\ org.via # "none"
    /\ hs[org.src].p = hs[h].p
    /\ org.key = key

\* An argument that is a node must not hold the container it is stored into
\* (the caller builds trees, not cycles).
NoCycle(this, x) == x.c = "node" => this.p \notin Reach(heap, x.n)

\* ljson::node dst = src.at(key);  (the copy is not made when at() throws)
CopyAt(dst, src, key) ==
    /\ last.n < MaxOps
    /\ Declared(src)
    /\ LET r == node_at_key(heap, hs[src], key)
       IN /\ hs' = IF r.ok THEN [hs EXCEPT ![dst] = r.node] ELSE hs
          /\ origin' = IF r.ok
                          THEN [h \in HandleNames |->
                                  IF h = dst /\ dst # src
                                      THEN [via |-> "copy", src |-> src, key |-> key]
                                  ELSE IF h = dst \/ origin[h].src = dst THEN NoOrigin
                                  ELSE origin[h]]
                          ELSE origin
          /\ last' = Last("copy_at", dst, key, 0, NoArg, r.ok, r.err, NoOrigin)
    /\ UNCHANGED heap
    /\ ParserUnchanged

\* h.set(x);  or  h = x;
Set(h, x) ==
    /\ last.n < MaxOps
    /\ Declared(h)
    /\ ~(x[1].c = "node" /\ x[2] = h)
    /\ LET r == setting_allowed_node_type(heap, x[1])
       IN /\ heap' = r.heap
          /\ hs' = [hs EXCEPT ![h] = r.node]
          /\ last' = Last("set", h, <<>>, 0, x[1], TRUE, "none", origin[h])
    /\ origin' = [g \in HandleNames |->
                    IF g = h \/ origin[g].src = h THEN NoOrigin ELSE origin[g]]
    /\ ParserUnchanged

\* h.insert(key, x);
Insert(h, key, x) ==
    /\ last.n < MaxOps
    /\ Declared(h)
    /\ NoCycle(hs[h], x[1])
    /\ LET r == node_insert(heap, hs[h], key, x[1])
       IN /\ heap' = r.heap
          /\ last' = Last("insert", h, key, 0, x[1], r.ok, r.err, origin[h])
          /\ origin' = IF r.ok
                          THEN [g \in HandleNames |->
                                  IF g = x[2] /\ g # h
                                      THEN [via |-> "insert", src |-> h, key |-> key]
                                  ELSE IF SameEntry(origin[g], h, key) THEN NoOrigin
                                  ELSE origin[g]]
                          ELSE origin
    /\ UNCHANGED hs
    /\ ParserUnchanged

\* h.push_back(x);
PushBack(h, x) ==
    /\ last.n < MaxOps
    /\ Declared(h)
    /\ NoCycle(hs[h], x[1])
    /\ LET r == node_push_back(heap, hs[h], x[1])
       IN /\ heap' = r.heap
          /\ last' = Last("push_back", h, <<>>, 0, x[1], r.ok, r.err, origin[h])
    /\ UNCHANGED <<hs, origin>>
    /\ ParserUnchanged

\* h.at(key) = x;  (nothing is assigned when at() throws)
AssignAt(h, key, x) ==
    /\ last.n < MaxOps
    /\ Declared(h)
    /\ NoCycle(hs[h], x[1])
    /\ LET at == node_at_key(heap, hs[h], key)
           r == setting_allowed_node_type(heap, x[1])
       IN /\ heap' = IF at.ok THEN assign_member(r.heap, at.p, key, r.node) ELSE heap
          /\ last' = Last("assign_at", h, key, 0, x[1], at.ok, at.err, NoOrigin)
    /\ origin' = [g \in HandleNames |->
                    IF SameEntry(origin[g], h, key) THEN NoOrigin ELSE origin[g]]
    /\ UNCHANGED hs
    /\ ParserUnchanged

\* h.at(index) = x;
AssignAtIndex(h, index, x) ==
    /\ last.n < MaxOps
    /\ Declared(h)
    /\ NoCycle(hs[h], x[1])
    /\ LET at == node_at_index(heap, hs[h], index)
           r == setting_allowed_node_type(heap, x[1])
       IN /\ heap' = IF at.ok THEN assign_element(r.heap, at.p, index, r.node)
                     ELSE heap
          /\ last' = Last("assign_at_index", h, <<>>, index, x[1], at.ok, at.err, NoOrigin)
    /\ UNCHANGED <<hs, origin>>
    /\ ParserUnchanged

Next ==
    \/ \E src \in HandleNames, key \in Keys : CopyAt("a", src, key)
    \/ \E h \in HandleNames, x \in ArgChoices : Set(h, x)
    \/ \E h \in HandleNames, key \in Keys, x \in ArgChoices : Insert(h, key, x)
    \/ \E h \in HandleNames, x \in ArgChoices : PushBack(h, x)
    \/ \E h \in HandleNames, key \in Keys, x \in ArgChoices : AssignAt(h, key, x)
    \/ \E h \in HandleNames, index \in Indices, x \in ArgChoices :
          AssignAtIndex(h, index, x)

Spec == Init /\ [][Next]_vars

----------------------------------------------------------------------------
(* Claims about the document model.                                        *)

\* The node a fresh org.src.at(org.key) returns now.
FreshAt(org) == node_at_key(heap, hs[org.src], org.key)

\* C1: if a was copied from node.at(k) and a.set(x) (or a = x) is then
\* executed, a fresh node.at(k) has the kind and content of x.
C1_SetThroughCopyReflected ==
    (last.op = "set" /\ last.origin.via = "copy") =>
        /\ FreshAt(last.origin).ok
        /\ Content(heap, FreshAt(last.origin).node) = ArgContent(heap, last.x)

\* The entry a variable came from holds what the variable holds.
C2_Shared ==
    \A h \in HandleNames :
        (origin[h].via # "none" /\ hs[h].t \in {"object", "array"}) =>
            /\ FreshAt(origin[h]).ok
            /\ FreshAt(origin[h]).node.t = hs[h].t
            /\ Content(heap, FreshAt(origin[h]).node) = Content(heap, hs[h])

\* An insert / push_back through such a variable adds exactly what was passed
\* to the entry.
C2_Step ==
    (/\ last'.op \in {"insert", "push_back"}
     /\ last'.ok
     /\ last'.origin.via # "none") =>
        LET before == Content(heap, FreshAt(last'.origin).node)
            entry == node_at_key(heap', hs'[last'.origin.src], last'.origin.key)
            after == Content(heap', entry.node)
            x == ArgContent(heap, last'.x)
        IN /\ entry.ok
           /\ after.t = before.t
           /\ last'.op = "insert" =>
                /\ DOMAIN after.map = DOMAIN before.map \cup {last'.key}
                /\ after.map[last'.key] = x
                /\ \A k \in DOMAIN before.map \ {last'.key} : after.map[k] = before.map[k]
           /\ last'.op = "push_back" =>
                /\ Len(after.elems) = Len(before.elems) + 1
                /\ after.elems[Len(after.elems)] = x
                /\ \A i \in 1..Len(before.elems) : after.elems[i] = before.elems[i]

\* C2: a variable that was copied from parent.at(k), or that was passed to
\* parent.insert(k, child), and holds a container shares it with the entry:
\* after every insert / push_back made through the variable, a fresh
\* parent.at(k) holds what the variable holds, and the last call's key maps
\* to (the last element is) what was passed, nothing else having changed.
C2_SharedContainer == [](C2_Shared) /\ [][C2_Step]_vars

\* C2's case: an insert or push_back through a variable that shares its
\* container with an entry, of either origin.
C2_Witness ==
    /\ last.op \in {"insert", "push_back"}
    /\ last.ok
    /\ last.origin.via = "copy"
    /\ last.h = "a"

\* An assignment through at() changes the addressed element and nothing else.
C3_Step ==
    (last'.op \in {"assign_at", "assign_at_index"} /\ last'.ok) =>
        LET before == Content(heap, hs[last'.h])
            after == Content(heap', hs'[last'.h])
            x == ArgContent(heap, last'.x)
        IN /\ after.t = before.t
           /\ last'.op = "assign_at" =>
                /\ DOMAIN after.map = DOMAIN before.map
                /\ after.map[last'.key] = x
                /\ \A k \in DOMAIN before.map \ {last'.key} : after.map[k] = before.map[k]
           /\ last'.op = "assign_at_index" =>
                /\ Len(after.elems) = Len(before.elems)
                /\ after.elems[last'.index + 1] = x
                /\ \A i \in 1..Len(before.elems) :
                      i # last'.index + 1 => after.elems[i] = before.elems[i]

\* C3: h.at(key) = x and h.at(index) = x replace exactly that element: it has
\* the kind and content of x afterwards, every other member or element, the
\* size and the kind of the container are unchanged.
C3_AssignAtReplacesOneElement == [][C3_Step]_vars

\* C3's case: an assignment through at(key) that changed a boolean to null
\* in an object of two members.
C3_Witness ==
    /\ last.op = "assign_at"
    /\ last.ok
    /\ last.x = ValueArg(NullValue)
    /\ last.n = 1
    /\ Cardinality(DOMAIN heap[hs[last.h].p].map) = 2

\* Every node of the run: the caller's variables and the nodes stored in
\* containers.
AllNodes ==
    {hs[h] : h \in {g \in HandleNames : Declared(g)}}
        \cup UNION {{heap[p].elems[i] : i \in 1..Len(heap[p].elems)} : p \in 1..Len(heap)}
        \cup UNION {{heap[p].map[k] : k \in DOMAIN heap[p].map} : p \in 1..Len(heap)}

----------------------------------------------------------------------------
(* The accessors: a caller that holds one node of any kind and reads it    *)
(* through every accessor, in both forms.                                  *)

MaxAccess == 2

AccessScalars ==
    {StringValue(<<"c">>), StringValue(<<>>), IntegerValue(5), IntegerValue(0),
     DoubleValue(5700000), DoubleValue(0), DoubleValue(1500000), DoubleValue(5000000),
     DoubleValue(10000000), DoubleValue(100000000), DoubleValue(1050000),
     BooleanValue(TRUE), BooleanValue(FALSE), NullValue}

ScalarAccessors == {"string", "number", "integer", "double", "boolean", "null"}

\* ljson::node node(x);  or  ljson::node node(type);
InitAccess ==
    /\ \E c \in {"arg", "type"} :
          \/ /\ c = "arg"
             /\ \E x \in {ValueArg(v) : v \in AccessScalars} \cup {ArgSeq, ArgMap} :
                   LET r == setting_allowed_node_type(<<>>, x)
                   IN /\ heap = r.heap
                      /\ hs = [h \in HandleNames |-> IF h = "node" THEN r.node ELSE NoNode]
          \/ /\ c = "type"
             /\ \E type \in node_types :
                   LET r == node_ctor_type(<<>>, type)
                   IN /\ heap = r.heap
                      /\ hs = [h \in HandleNames |-> IF h = "node" THEN r.node ELSE NoNode]
    /\ origin = [h \in HandleNames |-> NoOrigin]
    /\ last = [n |-> 0, op |-> "init", X |-> "", ok |-> TRUE, err |-> "none",
               p |-> 0, val |-> EmptyValue, thrown |-> FALSE]
    /\ ParserIdle

\* What the caller has in hand after an accessor: the pointer or the scalar
\* of a success, the error of a failure, and whether it arrived as a throw.
Accessed(op, X, ok, err, p, val, thrown) ==
    [n |-> last.n + 1, op |-> op, X |-> X, ok |-> ok, err |-> err, p |-> p,
     val |-> val, thrown |-> thrown]

AccessFrame == UNCHANGED <<heap, hs, origin>> /\ ParserUnchanged

\* node.try_as_value() / try_as_array() / try_as_object();
TryAsNode(kind) ==
    /\ last.n < MaxAccess
    /\ LET r == node_try_as(hs["node"], kind)
       IN last' = Accessed("try_as_node", kind, r.ok, r.err, r.p, EmptyValue, FALSE)
    /\ AccessFrame

\* node.as_value() / as_array() / as_object();
AsNode(kind) ==
    /\ last.n < MaxAccess
    /\ LET ok == node_try_as(hs["node"], kind)
       IN last' = Accessed("as_node", kind, ok.ok, ok.err, ok.p, EmptyValue, ~ok.ok)
    /\ AccessFrame

\* node.try_as_string() and the like.
TryAsScalar(X) ==
    /\ last.n < MaxAccess
    /\ LET r == node_try_as_scalar(heap, hs["node"], X)
       IN last' = Accessed("try_as", X, r.ok, r.err, 0, r.v, FALSE)
    /\ AccessFrame

\* node.as_string() and the like.
AsScalar(X) ==
    /\ last.n < MaxAccess
    /\ LET ok == node_try_as_scalar(heap, hs["node"], X)
       IN last' = Accessed("as", X, ok.ok, ok.err, 0, ok.v, ~ok.ok)
    /\ AccessFrame

\* node.as_value()->try_as_string() and the like: as_value() throws first on
\* a container.
ValueTryAs(X) ==
    /\ last.n < MaxAccess
    /\ LET val == node_try_as(hs["node"], "value")
           r == IF val.ok THEN value_try_as(heap[val.p].val, X) ELSE Err(val.err)
       IN last' = Accessed("value_try_as", X, r.ok, r.err, 0, r.v, ~val.ok)
    /\ AccessFrame

\* node.as_value()->as_string() and the like.
ValueAs(X) ==
    /\ last.n < MaxAccess
    /\ LET val == node_try_as(hs["node"], "value")
           ok == IF val.ok THEN value_try_as(heap[val.p].val, X) ELSE Err(val.err)
       IN last' = Accessed("value_as", X, ok.ok, ok.err, 0, ok.v, ~ok.ok)
    /\ AccessFrame

\* node.as_value()->stringify(): as_value() throws on a container.
Stringify ==
    /\ last.n < MaxAccess
    /\ LET val == node_try_as(hs["node"], "value")
       IN /\ last' = Accessed("stringify", "value", val.ok, val.err, 0, EmptyValue, ~val.ok)
          /\ out' = IF val.ok THEN stringify(heap[val.p].val) ELSE out
    /\ UNCHANGED <<heap, hs, origin, raw_json, pos, data, pc, outcome>>

NextAccess ==
    \/ Stringify
    \/ \E kind \in node_types : TryAsNode(kind)
    \/ \E kind \in node_types : AsNode(kind)
    \/ \E X \in ScalarAccessors : TryAsScalar(X)
    \/ \E X \in ScalarAccessors : AsScalar(X)
    \/ \E X \in ScalarAccessors : ValueTryAs(X)
    \/ \E X \in ScalarAccessors : ValueAs(X)

SpecAccess == InitAccess /\ [][NextAccess]_vars

\* The kind of the scalar a node holds, as value::type() reports it.
ScalarKind(n) == heap[n.p].val.type

\* Accessor X matches a scalar of kind k.
AccessorMatches(X, k) ==
    \/ X = "string" /\ k = "string"
    \/ X = "integer" /\ k = "integer"
    \/ X = "double" /\ k = "double_t"
    \/ X = "number" /\ k \in {"integer", "double_t"}
    \/ X = "boolean" /\ k = "boolean"
    \/ X = "null" /\ k = "null"

\* What a matching accessor hands out for the scalar v.
AccessorValue(X, v) ==
    IF X = "number" /\ v.type = "integer" THEN DoubleValue(v.n * 1000000) ELSE v

\* What the caller has in hand after an accessor.
C5_Result ==
    LET n == hs["node"]
        throwing == last.op \in {"as_node", "as", "value_as"}
        through_value == last.op \in {"value_try_as", "value_as"}
    IN last.op \notin {"init", "stringify"} =>
        /\ last.op \in {"try_as_node", "as_node"} =>
              /\ last.ok <=> n.t = last.X
              /\ last.ok => last.p = n.p
        /\ last.op \notin {"try_as_node", "as_node"} =>
              /\ last.ok <=> (n.t = "value" /\ AccessorMatches(last.X, ScalarKind(n)))
              /\ last.ok => last.val = AccessorValue(last.X, heap[n.p].val)
        /\ last.ok => (last.err = "none" /\ ~last.thrown)
        /\ ~last.ok =>
              /\ last.err = "wrong_type"
              /\ last.p = 0
              /\ last.val = EmptyValue
              /\ last.thrown <=> (throwing \/ (through_value /\ n.t # "value"))

\* No accessor changes a node.
C5_Step == (heap' = heap /\ hs' = hs)

\* C5: an accessor of another kind fails with wrong_type, by a throw in the
\* as_* form and by an error result in the try_as_* form; a scalar accessor
\* succeeds exactly when it matches the kind of the scalar (the number
\* accessor matching integer and double) and then hands out the stored
\* value; a failure hands out no pointer and no value, and no accessor
\* changes the node.
C5_TypeSafeAccessors == [](C5_Result) /\ [][C5_Step]_vars

\* C5's case: a throwing scalar accessor of the wrong kind on an integer,
\* after a container accessor failed on it.
C5_Witness ==
    /\ last.op = "as"
    /\ last.X = "string"
    /\ last.thrown
    /\ last.err = "wrong_type"
    /\ last.n = 2
    /\ hs["node"].t = "value"
    /\ ScalarKind(hs["node"]) = "integer"

----------------------------------------------------------------------------
(* The parser: struct parsing_data, struct parser_syntax, class parser.    *)

json_syntaxes ==
    {"opening_bracket", "closing_bracket", "quotes_1", "quotes_2", "column",
     "string_value", "object", "array", "maybe_empty_space_after", "flush_value"}

key_types == {"none", "simple_key", "object", "array"}

error_types ==
    {"none", "key_not_found", "filesystem_error", "parsing_error",
     "parsing_error_wrong_type", "wrong_type", "wronge_index"}

\* std::stack: the top is the last element.
top(q) == q[Len(q)]
pop(q) == SubSeq(q, 1, Len(q) - 1)
push(q, x) == Append(q, x)

\* struct parsing_data after its construction.  An entry of hierarchy is
\* the json_syntax of the pair; the line number beside it is only printed.
parsing_data ==
    [line |-> <<>>, i |-> 0, line_number |-> 1, keys |-> <<>>, json_objs |-> <<>>,
     raw_value |-> [first |-> <<>>, second |-> "none"], value |-> EmptyValue,
     hierarchy |-> <<>>]

\* data.line[data.i]
line_i(d) == d.line[d.i + 1]

\* What a handler hands back: the parsing state (data and the heap) with the
\* expected<bool, error>, or the exception that left it, or the use of
\* top() / pop() on an empty std::stack, which is undefined.
ReturnTrue(s) == [s |-> s, r |-> "true", err |-> "none"]
ReturnFalse(s) == [s |-> s, r |-> "false", err |-> "none"]
Unexpected(s, kind) == [s |-> s, r |-> "error", err |-> kind]
Thrown(s, what) == [s |-> s, r |-> "throw", err |-> what]
Undefined(s) == [s |-> s, r |-> "undefined", err |-> "none"]

WithData(s, d) == [s EXCEPT !.d = d]

\* is_num_decimal: digits with at most one '.', not empty.
is_num_decimal(x) ==
    /\ x # <<>>
    /\ \A k \in 1..Len(x) : isdigit(x[k]) \/ x[k] = "."
    /\ Cardinality({k \in 1..Len(x) : x[k] = "."}) <= 1

\* The number a run of digits denotes.
RECURSIVE DigitsValue(_)
DigitsValue(x) ==
    IF x = <<>> THEN 0
    ELSE DigitsValue(SubSeq(x, 1, Len(x) - 1)) * 10 + (IndexIn(Digits, x[Len(x)]) - 1)

RECURSIVE StripZeros(_)
StripZeros(x) == IF x # <<>> /\ Head(x) = "0" THEN StripZeros(Tail(x)) ELSE x

\* LLONG_MAX, in digits.
LLONG_MAX_digits ==
    <<"9", "2", "2", "3", "3", "7", "2", "0", "3", "6", "8", "5", "4", "7", "7", "5",
      "8", "0", "7">>

\* The digits a text starts with: what std::stoll and std::stod convert.
RECURSIVE DigitPrefix(_)
DigitPrefix(x) ==
    IF x = <<>> \/ ~isdigit(Head(x)) THEN <<>> ELSE <<Head(x)>> \o DigitPrefix(Tail(x))

\* std::stoll: the value of the digits the text starts with,
\* std::invalid_argument when it starts with none, std::out_of_range above
\* LLONG_MAX.
stoll(x) ==
    LET z == StripZeros(DigitPrefix(x))
    IN IF DigitPrefix(x) = <<>>
           THEN [ok |-> FALSE, n |-> 0, what |-> "std::invalid_argument"]
       ELSE IF Len(z) > Len(LLONG_MAX_digits)
           \/ (Len(z) = Len(LLONG_MAX_digits) /\ StringLess(LLONG_MAX_digits, z))
           THEN [ok |-> FALSE, n |-> 0, what |-> "std::out_of_range"]
           ELSE [ok |-> TRUE, n |-> DigitsValue(z), what |-> "none"]

\* std::stod: the value, in millionths, of the digits the text starts with
\* and of those after a '.' that follows them, or std::invalid_argument when
\* there is no digit to convert.
stod(x) ==
    LET whole == DigitPrefix(x)
        rest == SubSeq(x, Len(whole) + 1, Len(x))
        frac == IF rest # <<>> /\ Head(rest) = "." THEN DigitPrefix(Tail(rest)) ELSE <<>>
        frac6 == SubSeq(frac \o <<"0", "0", "0", "0", "0", "0">>, 1, 6)
    IN IF whole = <<>> /\ frac = <<>>
           THEN [ok |-> FALSE, d |-> 0, what |-> "std::invalid_argument"]
           ELSE [ok |-> TRUE, d |-> DigitsValue(whole) * 1000000 + DigitsValue(frac6),
                 what |-> "none"]

\* value::set_state(const std::string&, value_type), which set_value_type
\* calls.
set_state(val, t) ==
    IF t \in {"double_t", "number"}
        THEN LET c == stod(val)
             IN IF c.ok THEN [r |-> "ok", v |-> MkValue(t, "double", <<>>, 0, c.d, FALSE),
                              err |-> "none"]
                ELSE [r |-> "throw", v |-> EmptyValue, err |-> c.what]
    ELSE IF t = "integer"
        THEN LET c == stoll(val)
             IN IF c.ok THEN [r |-> "ok", v |-> IntegerValue(c.n), err |-> "none"]
                ELSE [r |-> "throw", v |-> EmptyValue, err |-> c.what]
    ELSE IF t = "string" THEN [r |-> "ok", v |-> StringValue(val), err |-> "none"]
    ELSE IF t = "boolean"
        THEN [r |-> "ok", v |-> BooleanValue(val = <<"t", "r", "u", "e">>), err |-> "none"]
    ELSE IF t = "null" THEN [r |-> "ok", v |-> NullValue, err |-> "none"]
    ELSE IF t = "none" THEN [r |-> "ok", v |-> EmptyValue, err |-> "none"]
    ELSE [r |-> "error", v |-> EmptyValue, err |-> "wrong_type"]

\* parser_syntax::value::is_string
syntax_is_string(d) == d.hierarchy # <<>> /\ top(d.hierarchy) = "string_value"

\* parser_syntax::array::is_array
array_is_array(d) == d.json_objs # <<>> /\ node_type_of(top(d.json_objs)) = "array"

\* parser_syntax::object::is_object
object_is_object(d) ==
    IF d.json_objs = <<>> \/ Len(d.json_objs) = 1 THEN FALSE
    ELSE node_type_of(top(d.json_objs)) = "object"

is_array_char(ch) == ch = "[" \/ ch = "]"
is_object_char(ch) == ch = "{" \/ ch = "}"

array_brackets_at_end_of_line(d) ==
    d.i = Len(d.line) - 1 /\ (line_i(d) = "[" \/ line_i(d) = "]")

object_brackets_at_end_of_line(d) ==
    d.i = Len(d.line) - 1 /\ (line_i(d) = "{" \/ line_i(d) = "}")

\* parser_syntax::quotes::quote
quote(d) == line_i(d) = "\"" /\ d.raw_value.second # "temp_escape_type"

is_hierarchy_qoutes(hierarchy) == hierarchy # <<>> /\ top(hierarchy) = "quotes_1"

column_in_quotes(hierarchy) ==
    hierarchy # <<>> /\ top(hierarchy) \in {"quotes_1", "string_value"}

two_consecutive_columns(hierarchy) == hierarchy # <<>> /\ top(hierarchy) = "column"

is_escape_char(d) == d.raw_value.second = "string" /\ line_i(d) = "\\"

\* is_next_char_correct that accepts every character.
is_next_char_correct_any(ch) == TRUE

is_next_char_correct(ch) == ch \in {"\"", "\\", "t", "b", "f", "n", "r", "u", "/"}

empty_value_in_non_string(d) ==
    IF d.raw_value.first = <<>> THEN FALSE
    ELSE /\ d.raw_value.second # "string"
         /\ top(d.raw_value.first) \in {" ", "\t"}

\* parser_syntax::value::is_not_value, called with a hierarchy that is not
\* empty.
is_not_value(d) ==
    IF d.json_objs # <<>> /\ node_type_of(top(d.json_objs)) = "array" THEN FALSE
    ELSE top(d.hierarchy) # "column" /\ top(d.hierarchy) # "string_value"

next_char_is_newline(d) == d.i = Len(d.line) - 2 /\ d.line[d.i + 2] = "\n"

end_of_line_after_bracket(d) ==
    IF d.hierarchy = <<>> THEN FALSE
    ELSE top(d.hierarchy) = "column" /\ d.i = Len(d.line) - 1

pop_flush_element(d) == d.hierarchy # <<>> /\ top(d.hierarchy) = "flush_value"

is_end_statement(d) ==
    \/ line_i(d) = "," /\ ~syntax_is_string(d)
    \/ /\ d.i = Len(d.line) - 1
       /\ ~object_brackets_at_end_of_line(d)
       /\ ~array_brackets_at_end_of_line(d)
       /\ ~syntax_is_string(d)
    \/ d.hierarchy # <<>> /\ top(d.hierarchy) = "flush_value"
    \/ line_i(d) = "}" /\ d.raw_value.first # <<>>

there_is_a_value(d) ==
    IF d.hierarchy = <<>> THEN FALSE
    ELSE \/ top(d.hierarchy) = "column"
         \/ top(d.hierarchy) = "flush_value"
         \/ array_is_array(d)

\* The loop of empty_space_in_number, which advances data.i itself: where
\* it stops and what it returns.
RECURSIVE empty_space_in_number(_, _, _)
empty_space_in_number(line, i, found_empty) ==
    IF ~(i < Len(line)) THEN [i |-> i, r |-> FALSE]
    ELSE IF line[i + 1] \in {" ", "\t"} THEN empty_space_in_number(line, i + 1, TRUE)
    ELSE IF line[i + 1] = "," \/ line[i + 1] = "\n" THEN [i |-> i, r |-> FALSE]
    ELSE IF found_empty THEN [i |-> i, r |-> TRUE]
    ELSE empty_space_in_number(line, i + 1, found_empty)

\* handle_end_statement, its end: the key of the member is cleared and the
\* column (or whatever is on top) is popped.
end_statement_done(d, h) ==
    IF d.hierarchy = <<>> THEN Undefined([d |-> d, h |-> h])
    ELSE ReturnTrue([d |-> [d EXCEPT !.keys[Len(d.keys)] =
                                         [first |-> <<>>, second |-> "none"],
                                     !.hierarchy = pop(@)],
                     h |-> h])

\* handle_end_statement, the insert under a simple key.
end_statement_insert(d, ins) ==
    IF ~ins.ok THEN Unexpected([d |-> d, h |-> ins.heap], "parsing_error")
    ELSE end_statement_done(d, ins.heap)

\* handle_end_statement with fill_array_data.
end_statement_push_back(d, psh) ==
    IF ~psh.ok THEN Unexpected([d |-> d, h |-> psh.heap], "parsing_error")
    ELSE ReturnTrue([d |-> d, h |-> psh.heap])

\* handle_end_statement from data.value on: the value is put under the key
\* or at the end of the array.
end_statement_store(s, d) ==
    IF d.keys = <<>> THEN Undefined(WithData(s, d))
    ELSE IF top(d.keys).second = "simple_key"
        THEN IF d.json_objs = <<>> THEN Undefined(WithData(s, d))
             ELSE end_statement_insert(d, node_insert(s.h, top(d.json_objs),
                                                      top(d.keys).first,
                                                      ValueArg(d.value)))
    ELSE IF object_is_object(d) THEN end_statement_done(d, s.h)
    ELSE IF array_is_array(d)
        THEN end_statement_push_back(d, node_push_back(s.h, top(d.json_objs),
                                                       ValueArg(d.value)))
    ELSE end_statement_done(d, s.h)

\* handle_end_statement at data.value.set_value_type(first, second).
end_statement_set(s, d, ok) ==
    IF ok.r = "throw"
        THEN Thrown(WithData(s, [d EXCEPT !.value.type = d.raw_value.second]), ok.err)
    ELSE IF ok.r = "error" THEN Unexpected(WithData(s, [d EXCEPT !.value = ok.v]), ok.err)
    ELSE end_statement_store(s, [d EXCEPT !.value = ok.v,
                                          !.raw_value = [first |-> <<>>,
                                                         second |-> "none"]])

\* handle_end_statement, the type it gives the text of the value.
end_statement_type(raw_value) ==
    IF raw_value.first = <<"n", "u", "l", "l">> THEN "null"
    ELSE IF raw_value.first = <<"t", "r", "u", "e">>
            \/ raw_value.first = <<"f", "a", "l", "s", "e">>
        THEN "boolean"
    ELSE IF is_num_decimal(raw_value.first)
        THEN (IF IsIn(raw_value.first, ".") THEN "double_t" ELSE "integer")
    ELSE IF raw_value.second = "none" /\ raw_value.first = <<>> THEN "none"
    ELSE IF raw_value.second # "string" THEN "unknown"
    ELSE raw_value.second

\* handle_end_statement once the type is set and, for a number, the line
\* has been searched for a space inside it.
end_statement_typed(s, d, scan_r) ==
    IF scan_r THEN Unexpected(WithData(s, d), "parsing_error_wrong_type")
    ELSE IF d.raw_value.second = "none" THEN ReturnTrue(WithData(s, d))
    ELSE IF d.raw_value.second = "unknown"
        THEN Unexpected(WithData(s, d), "parsing_error_wrong_type")
    ELSE end_statement_set(s, d, set_state(d.raw_value.first, d.raw_value.second))

end_statement_scanned(s, d, scan) ==
    end_statement_typed(s, [d EXCEPT !.raw_value.second = end_statement_type(d.raw_value),
                                     !.i = scan.i],
                        scan.r)

\* handle_end_statement after its two pops.
end_statement_popped(s, d) ==
    end_statement_scanned(s, d,
        IF is_num_decimal(d.raw_value.first)
            THEN empty_space_in_number(d.line, d.i, FALSE)
            ELSE [i |-> d.i, r |-> FALSE])

pop_newline(d) == IF next_char_is_newline(d) THEN [d EXCEPT !.line = pop(@)] ELSE d

pop_flush(d) == IF pop_flush_element(d) THEN [d EXCEPT !.hierarchy = pop(@)] ELSE d

\* parser_syntax::end_statement::handle_end_statement.
handle_end_statement(s) ==
    IF ~is_end_statement(s.d) THEN ReturnFalse(s)
    ELSE IF ~there_is_a_value(s.d) THEN ReturnFalse(s)
    ELSE end_statement_popped(s, pop_flush(pop_newline(s.d)))

\* parser_syntax::end_statement::flush_value.
flush_value(s) ==
    handle_end_statement(WithData(s, [s.d EXCEPT !.hierarchy = push(@, "flush_value")]))

pop_column(hierarchy) ==
    IF hierarchy # <<>> /\ top(hierarchy) = "column" THEN pop(hierarchy) ELSE hierarchy

clear_key(d) ==
    IF d.keys # <<>>
        THEN [d EXCEPT !.keys[Len(d.keys)] = [first |-> <<>>, second |-> "none"]]
        ELSE d

\* parser_syntax::end_statement::run_till_end_of_statement.
run_till_end_of_statement(d) ==
    IF d.hierarchy = <<>> THEN [d |-> d, r |-> FALSE]
    ELSE IF top(d.hierarchy) # "maybe_empty_space_after" THEN [d |-> d, r |-> FALSE]
    ELSE IF line_i(d) = "," \/ line_i(d) = "\n"
        THEN [d |-> clear_key([d EXCEPT !.hierarchy = pop_column(pop(@))]), r |-> TRUE]
    ELSE [d |-> d, r |-> FALSE]

\* parser_syntax::open_bracket::handle_open_bracket.
handle_open_bracket(s) ==
    IF line_i(s.d) = "{" /\ ~syntax_is_string(s.d)
        THEN ReturnTrue(WithData(s, [s.d EXCEPT !.hierarchy = push(@, "opening_bracket")]))
        ELSE ReturnFalse(s)

\* handle_empty: a wrong type found by flush_value is a parsing_error.
empty_flushed(ok) ==
    IF ok.r = "error" /\ ok.err = "parsing_error_wrong_type"
        THEN Unexpected(ok.s, "parsing_error")
        ELSE ok

\* parser_syntax::empty::handle_empty.
handle_empty(s) ==
    IF line_i(s.d) # " " /\ line_i(s.d) # "\t" THEN ReturnFalse(s)
    ELSE IF s.d.hierarchy = <<>> THEN ReturnTrue(s)
    ELSE IF is_hierarchy_qoutes(s.d.hierarchy) THEN ReturnFalse(s)
    ELSE IF top(s.d.hierarchy) = "string_value" THEN ReturnFalse(s)
    ELSE IF s.d.raw_value.second # "none" /\ s.d.raw_value.second # "unknown"
        THEN ReturnFalse(s)
    ELSE IF s.d.raw_value.second # "string" /\ s.d.raw_value.first # <<>>
        THEN empty_flushed(flush_value(s))
    ELSE ReturnTrue(s)

\* parser_syntax::key::handle_key.
handle_key(s) ==
    IF is_hierarchy_qoutes(s.d.hierarchy) /\ ~array_is_array(s.d)
        THEN IF s.d.keys = <<>> THEN Undefined(s)
             ELSE ReturnTrue(WithData(s, [s.d EXCEPT !.keys[Len(s.d.keys)].first =
                                                         Append(@, line_i(s.d))]))
        ELSE ReturnFalse(s)

\* parser_syntax::quotes::handle_quotes.
handle_quotes(s) ==
    IF ~quote(s.d) THEN ReturnFalse(s)
    ELSE IF s.d.hierarchy = <<>> THEN Undefined(s)
    ELSE IF top(s.d.hierarchy) = "quotes_1"
        THEN ReturnTrue(WithData(s,
                 IF s.d.keys # <<>> /\ top(s.d.keys).first = <<>>
                     THEN [s.d EXCEPT !.keys[Len(s.d.keys)].second = "simple_key",
                                      !.hierarchy = pop(@)]
                     ELSE [s.d EXCEPT !.hierarchy = pop(@)]))
    ELSE IF top(s.d.hierarchy) = "column" \/ top(s.d.hierarchy) = "array"
        THEN ReturnTrue(WithData(s, [s.d EXCEPT !.hierarchy = push(@, "string_value"),
                                                !.raw_value.second = "string"]))
    ELSE IF top(s.d.hierarchy) = "string_value"
        THEN flush_value(WithData(s, [s.d EXCEPT !.hierarchy = pop(@)]))
    ELSE ReturnTrue(WithData(s, [s.d EXCEPT !.hierarchy = push(@, "quotes_1")]))

\* parser_syntax::column::handle_column.
handle_column(s) ==
    IF line_i(s.d) # ":" THEN ReturnFalse(s)
    ELSE IF column_in_quotes(s.d.hierarchy) THEN ReturnFalse(s)
    ELSE IF two_consecutive_columns(s.d.hierarchy) THEN Unexpected(s, "parsing_error")
    ELSE ReturnTrue(WithData(s, [s.d EXCEPT !.hierarchy = push(@, "column")]))

\* parser_syntax::escape::handle_escape_char.
handle_escape_char(s) ==
    IF s.d.raw_value.second # "temp_escape_type" THEN ReturnFalse(s)
    ELSE IF ~is_next_char_correct(line_i(s.d)) THEN Unexpected(s, "parsing_error")
    ELSE ReturnTrue(s)

\* handle_value from the escape on: the type of the text and the
\* character added to it.
value_append(s, d, ok) ==
    IF is_escape_char(d)
        THEN ReturnTrue(WithData(s, [d EXCEPT !.raw_value.second = "temp_escape_type",
                                              !.raw_value.first = Append(@, line_i(d))]))
    ELSE IF ok.r = "error" THEN ok
    ELSE IF ok.r = "true" \/ top(d.hierarchy) = "string_value"
        THEN ReturnTrue(WithData(s, [d EXCEPT !.raw_value.second = "string",
                                              !.raw_value.first = Append(@, line_i(d))]))
    ELSE ReturnTrue(WithData(s, [d EXCEPT !.raw_value.first = Append(@, line_i(d))]))

\* handle_value once the key is typed.
value_keyed(s, d) == value_append(s, d, handle_escape_char(WithData(s, d)))

\* parser_syntax::value::handle_value.
handle_value(s) ==
    IF s.d.hierarchy = <<>> THEN ReturnFalse(s)
    ELSE IF is_not_value(s.d) THEN ReturnFalse(s)
    ELSE IF is_object_char(line_i(s.d)) /\ ~syntax_is_string(s.d) THEN ReturnFalse(s)
    ELSE IF is_array_char(line_i(s.d)) /\ ~syntax_is_string(s.d) THEN ReturnFalse(s)
    ELSE IF is_end_statement(s.d) THEN ReturnFalse(s)
    ELSE IF empty_value_in_non_string(s.d) THEN flush_value(s)
    ELSE IF array_is_array(s.d) THEN value_keyed(s, s.d)
    ELSE IF s.d.keys = <<>> THEN Undefined(s)
    ELSE value_keyed(s, [s.d EXCEPT !.keys[Len(s.d.keys)].second = "simple_key"])

\* handle_object at '{': the new object is pushed with an empty simple key.
object_opened(s, ok) ==
    IF ~ok.ok THEN Unexpected(s, ok.err)
    ELSE ReturnTrue([d |-> [s.d EXCEPT
                              !.json_objs = push(@, ok.node),
                              !.keys = push(@, [first |-> <<>>, second |-> "simple_key"]),
                              !.hierarchy = push(@, "object")],
                     h |-> ok.heap])

pop_column_at_end_of_line(d) ==
    IF end_of_line_after_bracket(d) THEN [d EXCEPT !.hierarchy = pop(@)] ELSE d

pop_json_obj(d) == IF d.json_objs # <<>> THEN [d EXCEPT !.json_objs = pop(@)] ELSE d

untype_key(d) ==
    IF d.keys # <<>> THEN [d EXCEPT !.keys[Len(d.keys)].second = "none"] ELSE d

push_maybe_empty_space_after(d) ==
    [d EXCEPT !.hierarchy = push(@, "maybe_empty_space_after")]

\* parser_syntax::object::handle_object.
handle_object(s) ==
    IF s.d.hierarchy = <<>> \/ is_end_statement(s.d) \/ syntax_is_string(s.d)
        THEN ReturnFalse(s)
    ELSE IF line_i(s.d) = "{"
        THEN IF s.d.json_objs = <<>> \/ s.d.keys = <<>> THEN Undefined(s)
             ELSE IF array_is_array(s.d)
                 THEN object_opened(s, add_object_to_array(s.h, top(s.d.json_objs)))
             ELSE object_opened(s, add_object_to_key(s.h, top(s.d.json_objs),
                                                     top(s.d.keys).first))
    ELSE IF object_is_object(s.d) /\ line_i(s.d) = "}"
        THEN IF s.d.keys = <<>> THEN Undefined(s)
             ELSE ReturnTrue(WithData(s,
                    push_maybe_empty_space_after(untype_key(pop_json_obj(
                        pop_column_at_end_of_line(
                            [s.d EXCEPT !.hierarchy = pop(@), !.keys = pop(@)]))))))
    ELSE IF array_is_array(s.d) /\ line_i(s.d) = "}"
        THEN IF s.d.keys = <<>> THEN Undefined(s)
             ELSE ReturnTrue(WithData(s,
                    push_maybe_empty_space_after(pop_json_obj(
                        [s.d EXCEPT !.hierarchy = pop(@), !.keys = pop(@)]))))
    ELSE ReturnFalse(s)

\* handle_array at '[': the new array is pushed, and a newline that ends
\* the line right after is dropped.
array_opened(s, d, ok) ==
    IF ~ok.ok THEN Unexpected(WithData(s, d), ok.err)
    ELSE ReturnTrue([d |-> pop_newline([d EXCEPT !.json_objs = push(@, ok.node)]),
                     h |-> ok.heap])

\* parser_syntax::array::handle_array.
handle_array(s) ==
    IF s.d.hierarchy = <<>> \/ is_end_statement(s.d) \/ syntax_is_string(s.d)
        THEN ReturnFalse(s)
    ELSE IF line_i(s.d) = "["
        THEN IF s.d.keys = <<>> \/ s.d.json_objs = <<>> THEN Undefined(s)
             ELSE array_opened(s, [s.d EXCEPT !.hierarchy = push(@, "array"),
                                              !.keys[Len(s.d.keys)].second = "array"],
                               add_array_to_key(s.h, top(s.d.json_objs),
                                                top(s.d.keys).first))
    ELSE IF array_is_array(s.d) /\ line_i(s.d) = "]"
        THEN ReturnTrue(WithData(s,
                push_maybe_empty_space_after(pop_json_obj(
                    [s.d EXCEPT !.hierarchy = pop(@)]))))
    ELSE ReturnFalse(s)

\* parser_syntax::closing_bracket::handle_closing_bracket.
handle_closing_bracket(s) ==
    IF line_i(s.d) # "}" \/ syntax_is_string(s.d) THEN ReturnFalse(s)
    ELSE IF s.d.hierarchy # <<>> /\ top(s.d.hierarchy) = "opening_bracket"
        THEN ReturnTrue(WithData(s, [s.d EXCEPT !.hierarchy = pop(@)]))
    ELSE Unexpected(s, "parsing_error")

\* handle_syntax_error that lets every character pass.
handle_syntax_error_lenient(s) == ReturnFalse(s)

\* parser_syntax::syntax_error::handle_syntax_error.
handle_syntax_error(s) ==
    IF is_end_statement(s.d) THEN ReturnFalse(s) ELSE Unexpected(s, "parsing_error")

\* parser::done_or_not_ok
done_or_not_ok(ok) == ok.r # "false"

\* The else-if chain of parsing: ok if it is done or not ok, else what the
\* handlers after it give.
or_else(ok, rest) == IF done_or_not_ok(ok) THEN ok ELSE rest

\* run_till_end_of_statement as the first step of parsing.
parsing_from(s, till) ==
    IF till.r THEN ReturnTrue(WithData(s, till.d))
    ELSE or_else(handle_empty(s),
         or_else(handle_quotes(s),
         or_else(handle_key(s),
         or_else(handle_column(s),
         or_else(handle_value(s),
         or_else(handle_object(s),
         or_else(handle_array(s),
         or_else(handle_end_statement(s),
         or_else(handle_open_bracket(s),
         or_else(handle_closing_bracket(s),
         or_else(handle_syntax_error(s), ReturnTrue(s))))))))))))

\* parser::parsing: the first handler that is done or not ok ends the call.
parsing(s) == parsing_from(s, run_till_end_of_statement(s.d))

\* check_unhandled_hierarchy: the error of the handler, if any.
unhandled(ok) == IF done_or_not_ok(ok) THEN ok ELSE ReturnTrue(ok.s)

\* parser::check_unhandled_hierarchy.  std::string(raw_json.back(), 1) is
\* the fill constructor: as many bytes 0x01 as the code of the last
\* character.
check_unhandled_hierarchy(raw, s) ==
    IF s.d.hierarchy = <<>> \/ raw = <<>> THEN ReturnTrue(s)
    ELSE IF top(raw) = "}" /\ top(s.d.hierarchy) = "opening_bracket"
        THEN unhandled(handle_closing_bracket(
                           WithData(s, [s.d EXCEPT !.line = <<"}">>, !.i = 0])))
    ELSE unhandled(handle_syntax_error(
                       WithData(s, [s.d EXCEPT !.line = [k \in 1..CharCode(top(raw)) |-> SOH],
                                               !.i = 0])))

\* try_parse up to its loop: json_data, and data with json_data and an empty
\* simple key pushed.
try_parse_begin ==
    LET n == node_ctor_type(<<>>, "object")
    IN [d |-> [parsing_data EXCEPT
                 !.json_objs = <<n.node>>,
                 !.keys = <<[first |-> <<>>, second |-> "simple_key"]>>],
        h |-> n.heap]

\* The json_data of try_parse: the first node it makes.
json_data == MkNode("object", 1)

\* The characters after which try_parse(const std::string&) hands the text
\* it has gathered to parsing.
is_line_end(ch) == ch = "\n" \/ ch = "," \/ ch = "}"

\* What the callers of parse and try_parse can see of a call.
Returned(node) == [r |-> "node", node |-> node, err |-> "none"]
Failed(form, kind) ==
    [r |-> IF form = "parse" THEN "throw" ELSE "error", node |-> NoNode, err |-> kind]
Terminated(what) == [r |-> "terminate", node |-> NoNode, err |-> what]

\* What may come of a call that used top() or pop() on an empty stack.
UndefinedOutcomes(form) ==
    {Returned(json_data), Terminated("undefined")}
        \cup {Failed(form, kind) : kind \in error_types \ {"none"}}

\* How a call of parsing or of check_unhandled_hierarchy that did not
\* return ok ends try_parse (and parse): an error is returned (thrown by
\* parse), an exception that reaches the noexcept try_parse ends the
\* program.
Ends(ok) ==
    IF ok.r = "error" THEN {Failed(last.op, ok.err)}
    ELSE IF ok.r = "throw" THEN {Terminated(ok.err)}
    ELSE UndefinedOutcomes(last.op)

CallerUnchanged == UNCHANGED <<hs, origin, last, out>>

\* try_parse: data.line += raw_json[i]; and, at the end of a line, the
\* start of the loop over it.
ReadChar ==
    /\ pc = "read"
    /\ pos < Len(raw_json)
    /\ data' = [data EXCEPT !.line = Append(@, raw_json[pos + 1]),
                             !.i = IF is_line_end(raw_json[pos + 1]) THEN 0 ELSE @]
    /\ IF is_line_end(raw_json[pos + 1])
           THEN pc' = "line" /\ pos' = pos
           ELSE pc' = "read" /\ pos' = pos + 1
    /\ UNCHANGED <<heap, raw_json, outcome>>
    /\ CallerUnchanged

\* What parsing leaves: on ok the loop goes on with data.i++, else try_parse
\* ends.
ParsingReturns(ok) ==
    IF ok.r = "true"
        THEN /\ data' = [ok.s.d EXCEPT !.i = @ + 1]
             /\ heap' = ok.s.h
             /\ pc' = "line"
             /\ UNCHANGED outcome
        ELSE /\ data' = ok.s.d
             /\ heap' = ok.s.h
             /\ pc' = "done"
             /\ outcome' \in Ends(ok)

\* One turn of the loop over the line: ok = parsing(data), the return of its
\* error, data.i++.
Parsing ==
    /\ pc = "line"
    /\ data.i < Len(data.line)
    /\ ParsingReturns(parsing([d |-> data, h |-> heap]))
    /\ UNCHANGED <<raw_json, pos>>
    /\ CallerUnchanged

\* The end of the loop over the line: data.line.clear(), data.line_number++,
\* and the i++ of the loop over raw_json.
EndLine ==
    /\ pc = "line"
    /\ ~(data.i < Len(data.line))
    /\ data' = [data EXCEPT !.line = <<>>, !.line_number = @ + 1]
    /\ pos' = pos + 1
    /\ pc' = "read"
    /\ UNCHANGED <<heap, raw_json, outcome>>
    /\ CallerUnchanged

\* What check_unhandled_hierarchy leaves: the return of json_data or of the
\* error.
FinishReturns(ok) ==
    /\ data' = ok.s.d
    /\ outcome' \in (IF ok.r = "true" THEN {Returned(json_data)} ELSE Ends(ok))

\* The end of raw_json: check_unhandled_hierarchy and the return.
Finish ==
    /\ pc = "read"
    /\ ~(pos < Len(raw_json))
    /\ FinishReturns(check_unhandled_hierarchy(raw_json, [d |-> data, h |-> heap]))
    /\ pc' = "done"
    /\ UNCHANGED <<heap, raw_json, pos>>
    /\ CallerUnchanged

\* node.dump_to_string() on the node the parser returned.
DumpParsed ==
    /\ pc = "done"
    /\ outcome.r = "node"
    /\ out' = dump_to_string(heap, outcome.node)
    /\ pc' = "dumped"
    /\ UNCHANGED <<heap, hs, origin, last, raw_json, pos, data, outcome>>

NextParse == ReadChar \/ Parsing \/ EndLine \/ Finish \/ DumpParsed

----------------------------------------------------------------------------
(* The documents given to the parser.                                      *)

MaxMembers == 2
MaxRawLen == 3

NoOutcome == [r |-> "none", node |-> NoNode, err |-> "none"]

Quoted(x) == <<"\"">> \o x \o <<"\"">>

\* The value tokens of the flat objects: what is written and the scalar it
\* denotes.
FlatTokens ==
    {[text |-> Quoted(<<"c", "a", "t">>), v |-> StringValue(<<"c", "a", "t">>)],
     [text |-> Quoted(<<"5">>), v |-> StringValue(<<"5">>)],
     [text |-> <<"5">>, v |-> IntegerValue(5)],
     [text |-> <<"t", "r", "u", "e">>, v |-> BooleanValue(TRUE)],
     [text |-> <<"n", "u", "l", "l">>, v |-> NullValue]}

\* The key of the i-th member of a flat object.
KeyList == <<<<"n", "a", "m", "e">>, <<"a", "g", "e">>, <<"s", "m", "o", "l">>, <<"k">>>>

Space(b) == IF b THEN <<" ">> ELSE <<>>

\* The members from the i-th on, as written.
RECURSIVE MembersText(_, _, _, _)
MembersText(members, i, colon_space, comma_space) ==
    IF i > Len(members) THEN <<>>
    ELSE Quoted(KeyList[i]) \o <<":">> \o Space(colon_space) \o members[i].text
         \o (IF i < Len(members) THEN <<",">> \o Space(comma_space) ELSE <<>>)
         \o MembersText(members, i + 1, colon_space, comma_space)

FlatText(members, colon_space, comma_space) ==
    <<"{">> \o MembersText(members, 1, colon_space, comma_space) \o <<"}">>

ScalarTree(v) == [t |-> "value", val |-> v, elems |-> <<>>, map |-> <<>>]

\* The tree a flat object denotes.
FlatTree(members) ==
    [t |-> "object", val |-> EmptyValue, elems |-> <<>>,
     map |-> [k \in {KeyList[i] : i \in 1..Len(members)} |->
                ScalarTree(members[CHOOSE i \in 1..Len(members) : KeyList[i] = k].v)]]

Document(family, text, tree) == [family |-> family, text |-> text, tree |-> tree]

FlatDocuments ==
    {Document("flat", FlatText(m, cs, ms), FlatTree(m)) :
        m \in UNION {[1..n -> FlatTokens] : n \in 0..MaxMembers},
        cs \in BOOLEAN, ms \in BOOLEAN}

\* {invalid}
Doc_unquoted_key ==
    <<"{", "i", "n", "v", "a", "l", "i", "d", "}">>

\* {{}
Doc_unclosed_brace ==
    <<"{", "{", "}">>

\* {"name":}
Doc_no_value ==
    <<"{", "\"", "n", "a", "m", "e", "\"", ":", "}">>

\* {"age":3 5}
Doc_split_number ==
    <<"{", "\"", "a", "g", "e", "\"", ":", "3", " ", "5", "}">>

\* {"smol":tru e}
Doc_split_literal ==
    <<"{", "\"", "s", "m", "o", "l", "\"", ":", "t", "r", "u", " ", "e", "}">>

InvalidDocuments ==
    {Document("invalid", text, <<>>) :
        text \in {Doc_unquoted_key, Doc_unclosed_brace, Doc_no_value,
                  Doc_split_number, Doc_split_literal}}

\* {"a":"x"}
Doc_whole_string ==
    <<"{", "\"", "a", "\"", ":", "\"", "x", "\"", "}">>

\* {"a":1}
Doc_whole_number ==
    <<"{", "\"", "a", "\"", ":", "1", "}">>

\* {"a":[\n1\n]\n}
Doc_whole_array ==
    <<"{", "\"", "a", "\"", ":", "[", "\n", "1", "\n", "]", "\n", "}">>

\* {"a":{"b":1}\n}
Doc_whole_object ==
    <<"{", "\"", "a", "\"", ":", "{", "\"", "b", "\"", ":", "1", "}", "\n", "}">>

\* A document cut before its end: every proper prefix of a whole document
\* leaves at least the outer object open.
TruncatedDocuments ==
    UNION {{Document("truncated", SubSeq(text, 1, n), <<>>) : n \in 1..(Len(text) - 1)} :
             text \in {Doc_whole_string, Doc_whole_number, Doc_whole_array,
                       Doc_whole_object}}

\* The number tokens: what is written and the scalar it denotes.
NumberTokens ==
    {[text |-> <<"5">>, v |-> IntegerValue(5)],
     [text |-> <<"0">>, v |-> IntegerValue(0)],
     [text |-> <<"1", "2">>, v |-> IntegerValue(12)],
     [text |-> <<"5", ".", "0">>, v |-> DoubleValue(5000000)],
     [text |-> <<"5", ".", "7">>, v |-> DoubleValue(5700000)],
     [text |-> <<"0", ".", "5">>, v |-> DoubleValue(500000)]}

MemberOf(k, tree) ==
    [t |-> "object", val |-> EmptyValue, elems |-> <<>>, map |-> (k :> tree)]

ArrayOf(tree) == [t |-> "array", val |-> EmptyValue, elems |-> <<tree>>, map |-> <<>>]

\* A number as the value of a member, as the element of an array written
\* on one line, and as the element of an array written one element a line.
NumberDocuments ==
    {Document("number", <<"{">> \o Quoted(<<"a">>) \o <<":">> \o tok.text \o <<"}">>,
              MemberOf(<<"a">>, ScalarTree(tok.v))) : tok \in NumberTokens} \cup
    {Document("number",
              <<"{">> \o Quoted(<<"a">>) \o <<":", "[">> \o tok.text \o <<"]", "}">>,
              MemberOf(<<"a">>, ArrayOf(ScalarTree(tok.v)))) : tok \in NumberTokens} \cup
    {Document("number",
              <<"{">> \o Quoted(<<"a">>) \o <<":", "[", "\n">> \o tok.text
                  \o <<"\n", "]", "\n", "}">>,
              MemberOf(<<"a">>, ArrayOf(ScalarTree(tok.v)))) : tok \in NumberTokens}

\* Tokens that look like numbers and are none: no digit, or more than
\* LLONG_MAX.
UnconvertibleTokens ==
    {<<".">>,
     <<"9", "2", "2", "3", "3", "7", "2", "0", "3", "6", "8", "5", "4", "7", "7", "5",
       "8", "0", "8">>}

UnconvertibleDocuments ==
    {Document("unconvertible",
              <<"{">> \o Quoted(<<"a">>) \o <<":">> \o tok \o <<"}">>, <<>>) :
        tok \in UnconvertibleTokens}

\* What may stand between the quotes of a string: letters, digits, blanks,
\* the structural characters and recognised escape sequences.
StringUnits ==
    {<<"x">>, <<"5">>, <<" ">>, <<"\t">>, <<",">>, <<":">>, <<"{">>, <<"}">>, <<"[">>,
     <<"]">>, <<"\\", "n">>, <<"\\", "\"">>}

MaxUnits == 2

RECURSIVE Flatten(_)
Flatten(units) == IF units = <<>> THEN <<>> ELSE Head(units) \o Flatten(Tail(units))

StringContents == {Flatten(u) : u \in UNION {[1..n -> StringUnits] : n \in 0..MaxUnits}}

\* One member whose value is a string of the given content.
StringDocuments ==
    {Document("string", <<"{">> \o Quoted(<<"a">>) \o <<":">> \o Quoted(c) \o <<"}">>,
              MemberOf(<<"a">>, ScalarTree(StringValue(c)))) : c \in StringContents}

\* The characters the parser accepts after a backslash, and others.
EscapeAccepted == {"\"", "\\", "t", "b", "f", "n", "r", "u", "/"}
EscapeOthers == {"q", "x", "a", "0", "5", " ", ",", ":", "{", "}", "[", "]", "\n"}

\* One member whose value is a string with one backslash in it, at its
\* start or after a letter, at its end or before a letter.
EscapeDocuments ==
    {Document("escape",
              <<"{">> \o Quoted(<<"a">>) \o <<":">> \o Quoted(pre \o <<"\\", c>> \o post)
                  \o <<"}">>,
              IF c \in EscapeAccepted
                  THEN MemberOf(<<"a">>, ScalarTree(StringValue(pre \o <<"\\", c>> \o post)))
                  ELSE <<>>) :
        pre \in {<<>>, <<"x">>}, post \in {<<>>, <<"y">>},
        c \in EscapeAccepted \cup EscapeOthers}

\* Documents with a comma after the last member or element: a flat object,
\* an array written one element a line (the layout of the test suite), an
\* array written on one line, and a nested object.
Doc_trailing_member == <<"{">> \o Quoted(<<"a">>) \o <<":", "1", ",", "}">>
Doc_trailing_members ==
    <<"{">> \o Quoted(<<"a">>) \o <<":", "1", ",">> \o Quoted(<<"b">>) \o <<":">>
        \o Quoted(<<"x">>) \o <<",", "}">>
Doc_trailing_element_lines ==
    <<"{">> \o Quoted(<<"a">>) \o <<":", "[", "\n", "1", ",", "\n", "2", ",", "\n", "]", "\n", "}">>
Doc_trailing_element_inline ==
    <<"{">> \o Quoted(<<"a">>) \o <<":", "[", "1", ",", "2", ",", "]", "}">>
Doc_trailing_nested ==
    <<"{">> \o Quoted(<<"a">>) \o <<":", "{">> \o Quoted(<<"b">>) \o <<":", "1", ",", "}", "\n", "}">>

OneTwo ==
    [t |-> "array", val |-> EmptyValue,
     elems |-> <<ScalarTree(IntegerValue(1)), ScalarTree(IntegerValue(2))>>, map |-> <<>>]

TrailingDocuments ==
    {Document("trailing", Doc_trailing_member, MemberOf(<<"a">>, ScalarTree(IntegerValue(1)))),
     Document("trailing", Doc_trailing_members,
              [t |-> "object", val |-> EmptyValue, elems |-> <<>>,
               map |-> (<<"a">> :> ScalarTree(IntegerValue(1))
                        @@ <<"b">> :> ScalarTree(StringValue(<<"x">>)))]),
     Document("trailing", Doc_trailing_element_lines, MemberOf(<<"a">>, OneTwo)),
     Document("trailing", Doc_trailing_element_inline, MemberOf(<<"a">>, OneTwo)),
     Document("trailing", Doc_trailing_nested,
              MemberOf(<<"a">>, MemberOf(<<"b">>, ScalarTree(IntegerValue(1)))))}

\* Documents whose value is a token that is no JSON literal, alone before
\* the delimiter or followed by a space, or a number with a space or a tab
\* between its digits; as a member and as an array element.
BadTokens ==
    {<<"x", "y", "z">>, <<"t", "r", "u">>, <<"1", ".", "2", ".", "3">>, <<"x", "y", "z", " ">>,
     <<"1", " ", "2">>, <<"1", "\t", "2">>, <<"1", ".", "5", " ", "2">>}

BadTokenDocuments ==
    {Document("badtoken", <<"{">> \o Quoted(<<"a">>) \o <<":">> \o tok \o <<"}">>, <<>>) :
        tok \in BadTokens}
    \cup {Document("badtoken",
                   <<"{">> \o Quoted(<<"a">>) \o <<":">> \o tok \o <<",">> \o Quoted(<<"b">>)
                       \o <<":", "1", "}">>, <<>>) : tok \in BadTokens}
    \cup {Document("badtoken",
                   <<"{">> \o Quoted(<<"a">>) \o <<":", "[", "\n">> \o tok
                       \o <<"\n", "]", "\n", "}">>, <<>>) : tok \in BadTokens}

\* Documents with a nested object followed by a member of the root:
\* {"a":{"b":V},"c":"y"} with the '}' of the nested object directly after an
\* unquoted scalar, after a string, after a newline, and {"a":{},"c":"y"}.
CloseInner ==
    {[text |-> <<"1">>, v |-> IntegerValue(1)],
     [text |-> <<"t", "r", "u", "e">>, v |-> BooleanValue(TRUE)],
     [text |-> Quoted(<<"x">>), v |-> StringValue(<<"x">>)],
     [text |-> <<"1", "\n">>, v |-> IntegerValue(1)],
     [text |-> Quoted(<<"x">>) \o <<"\n">>, v |-> StringValue(<<"x">>)]}

CloseText(inner, end) ==
    <<"{">> \o Quoted(<<"a">>) \o <<":", "{">> \o Quoted(<<"b">>) \o <<":">> \o inner
        \o <<"}", ",">> \o Quoted(<<"c">>) \o <<":">> \o Quoted(<<"y">>) \o end \o <<"}">>

CloseTree(v) ==
    [t |-> "object", val |-> EmptyValue, elems |-> <<>>,
     map |-> (<<"a">> :> MemberOf(<<"b">>, ScalarTree(v))
              @@ <<"c">> :> ScalarTree(StringValue(<<"y">>)))]

Doc_close_empty ==
    <<"{">> \o Quoted(<<"a">>) \o <<":", "{", "}", ",">> \o Quoted(<<"c">>) \o <<":">>
        \o Quoted(<<"y">>) \o <<"}">>

CloseDocuments ==
    {Document("close", CloseText(inner.text, end), CloseTree(inner.v)) :
        inner \in CloseInner, end \in {<<>>, <<"\n">>}}
    \cup {Document("close", Doc_close_empty,
                   [t |-> "object", val |-> EmptyValue, elems |-> <<>>,
                    map |-> (<<"a">> :> [t |-> "object", val |-> EmptyValue,
                                         elems |-> <<>>, map |-> <<>>]
                             @@ <<"c">> :> ScalarTree(StringValue(<<"y">>)))])}

\* Documents with an array opened after a colon, {"a":A,"c":"y"}: A is
\* empty, holds a string, or holds an array opened inside it, first or
\* second, empty or not. Every element is a string, so that no number
\* stands before a ']'.
ArrayTree(elems) == [t |-> "array", val |-> EmptyValue, elems |-> elems, map |-> <<>>]

StrY == ScalarTree(StringValue(<<"y">>))
StrX == ScalarTree(StringValue(<<"x">>))
StrZ == ScalarTree(StringValue(<<"z">>))

ArrayOpenInner ==
    {[text |-> <<"[", "]">>, tree |-> ArrayTree(<<>>), nested |-> FALSE],
     [text |-> <<"[">> \o Quoted(<<"x">>) \o <<"]">>, tree |-> ArrayTree(<<StrX>>),
      nested |-> FALSE],
     [text |-> <<"[", "[">> \o Quoted(<<"x">>) \o <<"]", ",">> \o Quoted(<<"z">>) \o <<"]">>,
      tree |-> ArrayTree(<<ArrayTree(<<StrX>>), StrZ>>), nested |-> TRUE],
     [text |-> <<"[", "[", "]", ",">> \o Quoted(<<"z">>) \o <<"]">>,
      tree |-> ArrayTree(<<ArrayTree(<<>>), StrZ>>), nested |-> TRUE],
     [text |-> <<"[">> \o Quoted(<<"z">>) \o <<",", "[">> \o Quoted(<<"x">>)
                  \o <<"]", "\n", "]">>,
      tree |-> ArrayTree(<<StrZ, ArrayTree(<<StrX>>)>>), nested |-> TRUE]}

ArrayOpenDocuments ==
    {Document(IF inner.nested THEN "arrayopen_nested" ELSE "arrayopen",
              <<"{">> \o Quoted(<<"a">>) \o <<":">> \o inner.text \o <<",">>
                  \o Quoted(<<"c">>) \o <<":">> \o Quoted(<<"y">>) \o end \o <<"}">>,
              [t |-> "object", val |-> EmptyValue, elems |-> <<>>,
               map |-> (<<"a">> :> inner.tree @@ <<"c">> :> StrY)]) :
        inner \in ArrayOpenInner, end \in {<<>>, <<"\n">>}}

\* Documents whose value is written in double quotes: digits, a decimal
\* number, true, false, null and a word; as the value of a member, alone
\* and before a second member, and as the element of an array.
QuotedTexts ==
    {<<"5">>, <<"1", ".", "5">>, <<"t", "r", "u", "e">>, <<"f", "a", "l", "s", "e">>,
     <<"n", "u", "l", "l">>, <<"x">>}

QuotedDocuments ==
    {Document("quoted", <<"{">> \o Quoted(<<"a">>) \o <<":">> \o Quoted(x) \o <<"}">>,
              MemberOf(<<"a">>, ScalarTree(StringValue(x)))) : x \in QuotedTexts}
    \cup {Document("quoted",
                   <<"{">> \o Quoted(<<"a">>) \o <<":">> \o Quoted(x) \o <<",">>
                       \o Quoted(<<"c">>) \o <<":">> \o Quoted(<<"y">>) \o <<"}">>,
                   [t |-> "object", val |-> EmptyValue, elems |-> <<>>,
                    map |-> (<<"a">> :> ScalarTree(StringValue(x)) @@ <<"c">> :> StrY)]) :
              x \in QuotedTexts}
    \cup {Document("quoted",
                   <<"{">> \o Quoted(<<"a">>) \o <<":", "[">> \o Quoted(x)
                       \o <<"\n", "]", "\n", "}">>,
                   MemberOf(<<"a">>, ArrayOf(ScalarTree(StringValue(x))))) :
              x \in QuotedTexts}

\* Documents with spaces or tabs after an unquoted scalar: a number, true,
\* false or null, followed by a space, a tab or two spaces, and then by
\* '}', by ',' and a second member, by a newline, or, as the element of an
\* array, by ']', by ',' and a second element, or by a newline.
SpacedTokens ==
    {[text |-> <<"1", "2">>, v |-> IntegerValue(12)],
     [text |-> <<"1", ".", "5">>, v |-> DoubleValue(1500000)],
     [text |-> <<"t", "r", "u", "e">>, v |-> BooleanValue(TRUE)],
     [text |-> <<"f", "a", "l", "s", "e">>, v |-> BooleanValue(FALSE)],
     [text |-> <<"n", "u", "l", "l">>, v |-> NullValue]}

SpaceRuns == {<<" ">>, <<"\t">>, <<" ", " ">>}

SpacedDocuments ==
    {Document("spaced", <<"{">> \o Quoted(<<"a">>) \o <<":">> \o tok.text \o ws \o end,
              MemberOf(<<"a">>, ScalarTree(tok.v))) :
        tok \in SpacedTokens, ws \in SpaceRuns, end \in {<<"}">>, <<"\n", "}">>}}
    \cup {Document("spaced",
                   <<"{">> \o Quoted(<<"a">>) \o <<":">> \o tok.text \o ws \o <<",">>
                       \o Quoted(<<"c">>) \o <<":">> \o Quoted(<<"y">>) \o <<"}">>,
                   [t |-> "object", val |-> EmptyValue, elems |-> <<>>,
                    map |-> (<<"a">> :> ScalarTree(tok.v) @@ <<"c">> :> StrY)]) :
              tok \in SpacedTokens, ws \in SpaceRuns}
    \cup {Document("spaced",
                   <<"{">> \o Quoted(<<"a">>) \o <<":", "[">> \o tok.text \o ws \o end
                       \o <<"\n", "}">>,
                   MemberOf(<<"a">>, ArrayOf(ScalarTree(tok.v)))) :
              tok \in SpacedTokens, ws \in SpaceRuns, end \in {<<"]">>, <<"\n", "]">>}}
    \cup {Document("spaced",
                   <<"{">> \o Quoted(<<"a">>) \o <<":", "[">> \o tok.text \o ws \o <<",">>
                       \o Quoted(<<"y">>) \o <<"\n", "]", "\n", "}">>,
                   MemberOf(<<"a">>, ArrayTree(<<ScalarTree(tok.v), StrY>>))) :
              tok \in SpacedTokens, ws \in SpaceRuns}

\* Documents with brackets that do not match: a closer too many, an array
\* closed by '}', an object closed by ']', a closer with no opener, and
\* their well-formed neighbours.
BracketTexts ==
    {<<"{">> \o Quoted(<<"a">>) \o <<":", "1", "}", "}">>,
     <<"{">> \o Quoted(<<"a">>) \o <<":">> \o Quoted(<<"x">>) \o <<"}", "\n", "}">>,
     <<"{">> \o Quoted(<<"a">>) \o <<":", "[">> \o Quoted(<<"x">>) \o <<"}">>,
     <<"{">> \o Quoted(<<"a">>) \o <<":", "[">> \o Quoted(<<"x">>) \o <<"\n", "}", "\n", "}">>,
     <<"{">> \o Quoted(<<"a">>) \o <<":", "[">> \o Quoted(<<"x">>) \o <<"\n", "]", "\n", "}">>,
     <<"{">> \o Quoted(<<"a">>) \o <<":", "[", "\n", "1", "\n", "}", "\n", "}">>,
     <<"{">> \o Quoted(<<"a">>) \o <<":", "[", "\n", "1", "\n", "]", "\n", "]", "\n", "}">>,
     <<"{">> \o Quoted(<<"a">>) \o <<":", "{">> \o Quoted(<<"b">>) \o <<":">> \o Quoted(<<"x">>)
         \o <<"}">>,
     <<"{">> \o Quoted(<<"a">>) \o <<":", "{">> \o Quoted(<<"b">>) \o <<":">> \o Quoted(<<"x">>)
         \o <<"}", "}">>,
     <<"{">> \o Quoted(<<"a">>) \o <<":", "{">> \o Quoted(<<"b">>) \o <<":">> \o Quoted(<<"x">>)
         \o <<"]", "}">>,
     <<"{">> \o Quoted(<<"a">>) \o <<":">> \o Quoted(<<"x">>) \o <<"]", "}">>,
     <<"{">> \o Quoted(<<"a">>) \o <<":">> \o Quoted(<<"x">>) \o <<"}", "]">>,
     <<"{", "{">> \o Quoted(<<"a">>) \o <<":">> \o Quoted(<<"x">>) \o <<"}", "}">>,
     <<"{">> \o Quoted(<<"a">>) \o <<":">> \o Quoted(<<"}">>) \o <<"}">>,
     <<"{">> \o Quoted(<<"a">>) \o <<":">> \o Quoted(<<"[">>) \o <<"}">>}

BracketDocuments == {Document("brackets", text, <<>>) : text \in BracketTexts}

RawAlphabet == {"{", "}", "\"", ",", "5", "."}

\* Every text of up to MaxRawLen characters of the alphabet.
RawDocuments ==
    {Document("raw", text, <<>>) :
        text \in UNION {[1..n -> RawAlphabet] : n \in 0..MaxRawLen}}

Documents ==
    FlatDocuments \cup InvalidDocuments \cup TruncatedDocuments \cup NumberDocuments
        \cup UnconvertibleDocuments \cup RawDocuments \cup StringDocuments
        \cup EscapeDocuments \cup TrailingDocuments \cup BadTokenDocuments
        \cup CloseDocuments \cup ArrayOpenDocuments
        \cup QuotedDocuments \cup SpacedDocuments \cup BracketDocuments

\* ljson::parser::parse(raw_json) or ljson::parser::try_parse(raw_json) has
\* been called and try_parse stands before its loop.
InitParse ==
    /\ \E op \in {"parse", "try_parse"}, doc \in Documents :
          /\ last = [op |-> op, family |-> doc.family, tree |-> doc.tree]
          /\ raw_json = doc.text
    /\ heap = try_parse_begin.h
    /\ data = try_parse_begin.d
    /\ pos = 0
    /\ pc = "read"
    /\ outcome = NoOutcome
    /\ out = <<>>
    /\ hs = [h \in HandleNames |-> NoNode]
    /\ origin = [h \in HandleNames |-> NoOrigin]

SpecParse == InitParse /\ [][NextParse]_vars

----------------------------------------------------------------------------
(* Claims about the parser.                                                *)

\* The call has returned, thrown or ended the program.
Done == pc = "done"

\* C6: a flat object written on one line, its members quoted keys with
\* string, integer, boolean or null values, with or without a space after
\* ':' and ',', parses to an object of exactly those keys, each mapped to
\* the scalar of the written kind and value.
C6_FlatObjectParse ==
    (Done /\ last.family = "flat") =>
        /\ outcome.r = "node"
        /\ Content(heap, outcome.node) = last.tree

\* C7: the five malformed documents fail in both forms: parse throws an
\* ljson::error, try_parse returns an error result, and no tree is
\* returned.
C7_MalformedRejected ==
    last.family = "invalid" =>
        /\ outcome.node = NoNode
        /\ outcome.r \in {"none", IF last.op = "parse" THEN "throw" ELSE "error"}
        /\ Done => (outcome.r # "none" /\ outcome.err \in error_types \ {"none"})

\* C7's case: parse has thrown on the literal split by a space.
C7_Witness ==
    /\ Done
    /\ raw_json = Doc_split_literal
    /\ last.op = "parse"
    /\ outcome.r = "throw"
    /\ outcome.err = "parsing_error"

\* C8: a document cut before its end is rejected with an error: no tree is
\* returned for it.
C8_TruncatedRejected ==
    (Done /\ last.family = "truncated") =>
        /\ outcome.r = (IF last.op = "parse" THEN "throw" ELSE "error")
        /\ outcome.node = NoNode

\* C9: try_parse returns a node or an error of a declared kind for every
\* text: it never throws and never ends the program.
C9_TryParseTotal ==
    (Done /\ last.op = "try_parse") =>
        \/ outcome.r = "node" /\ outcome.node = json_data
        \/ outcome.r = "error" /\ outcome.err \in error_types \ {"none"}

\* C10: a token of digits parses to the integer it denotes and a token of
\* digits with one '.' to the double it denotes, as the value of a member
\* and as the element of an array.
C10_NumberClassification ==
    (Done /\ last.family = "number") =>
        /\ outcome.r = "node"
        /\ Content(heap, outcome.node) = last.tree

\* C11: the value of a quoted string is the text between its quotes, character
\* for character, whatever letters, digits, blanks, structural characters
\* and escape sequences it is made of.
C11_ExactStringContent ==
    (Done /\ last.family = "string") =>
        /\ outcome.r = "node"
        /\ Content(heap, outcome.node) = last.tree

Dumped == pc = "dumped"

\* Outside the strings of a text, a comma is the last thing before the
\* bracket that closes a container.
RECURSIVE CommaBeforeClose(_, _, _)
CommaBeforeClose(text, in_string, after_comma) ==
    IF text = <<>> THEN FALSE
    ELSE IF in_string
        THEN (IF Head(text) = "\\" THEN CommaBeforeClose(Tail(Tail(text)), TRUE, FALSE)
              ELSE CommaBeforeClose(Tail(text), Head(text) # "\"", FALSE))
    ELSE IF Head(text) = "\"" THEN CommaBeforeClose(Tail(text), TRUE, FALSE)
    ELSE IF Head(text) = "," THEN CommaBeforeClose(Tail(text), FALSE, TRUE)
    ELSE IF Head(text) \in {" ", "\n"} THEN CommaBeforeClose(Tail(text), FALSE, after_comma)
    ELSE IF Head(text) \in {"}", "]"} /\ after_comma THEN TRUE
    ELSE CommaBeforeClose(Tail(text), FALSE, FALSE)

\* C13: a document with a comma after its last member or element parses to
\* the tree of the written members and elements, no more, and the dump of a
\* node has no comma after the last member or element of a container.
C13_TrailingCommas ==
    /\ (Done /\ last.family = "trailing") =>
          /\ outcome.r = "node"
          /\ Content(heap, outcome.node) = last.tree
    /\ Dumped => ~CommaBeforeClose(out, FALSE, FALSE)

\* The keys of a tree's members, ascending.
AscendingKeys(S) ==
    CHOOSE ks \in [1..Cardinality(S) -> S] :
        \A i, j \in 1..Cardinality(S) : i < j => StringLess(ks[i], ks[j])

Spaces(count) == [k \in 1..count |-> " "]

\* The lines of a container, one member or element a line, a comma after
\* all but the last.
RECURSIVE Lines(_, _)
Lines(items, i) ==
    IF i > Len(items) THEN <<>>
    ELSE items[i] \o (IF i < Len(items) THEN <<",">> ELSE <<>>) \o <<"\n">>
         \o Lines(items, i + 1)

\* The text of a tree at a nesting level: members by ascending key, elements
\* in sequence, strings between quotes, other scalars as stringify() gives
\* them, four more spaces a level and the closing bracket at the level of
\* the container.
RECURSIVE Rendered(_, _)
RenderedMembers(tree, keys, level) ==
    [i \in 1..Len(keys) |->
        Spaces(4 * (level + 1)) \o Quoted(keys[i]) \o <<":", " ">>
            \o Rendered(tree.map[keys[i]], level + 1)]

RenderedElements(tree, level) ==
    [i \in 1..Len(tree.elems) |->
        Spaces(4 * (level + 1)) \o Rendered(tree.elems[i], level + 1)]

Rendered(tree, level) ==
    IF tree.t = "object"
        THEN <<"{", "\n">>
             \o Lines(RenderedMembers(tree, AscendingKeys(DOMAIN tree.map), level), 1)
             \o Spaces(4 * level) \o <<"}">>
    ELSE IF tree.t = "array"
        THEN <<"[", "\n">> \o Lines(RenderedElements(tree, level), 1)
             \o Spaces(4 * level) \o <<"]">>
    ELSE IF tree.val.type = "string" THEN Quoted(tree.val.s)
    ELSE stringify(tree.val)

\* C14: dump_to_string writes the members of every object by ascending key,
\* whatever the order they were parsed in, the elements of an array in
\* sequence, a string between double quotes and any other scalar as its
\* stringify() text, every nested level four spaces deeper and the closing
\* bracket at the indent of its container.
C14_DumpOrderAndForm ==
    Dumped => out = Rendered(Content(heap, outcome.node), 0)

\* C14's case: the dump of a parsed object of two members written in
\* descending key order, one of them an integer.
C14_Witness ==
    /\ Dumped
    /\ last.family = "flat"
    /\ DOMAIN Content(heap, outcome.node).map = {KeyList[1], KeyList[2]}
    /\ StringLess(KeyList[2], KeyList[1])
    /\ Content(heap, outcome.node).map[KeyList[2]] = ScalarTree(IntegerValue(5))

\* The fraction of a fixed-point text, in millionths.
FractionValue(frac) == DigitsValue(frac \o [k \in 1..(6 - Len(frac)) |-> "0"])

\* C15: stringify() of a double is its fixed-point text, the trailing zeros
\* of the fraction removed and at least one digit of it kept, the integer
\* part whole: the text denotes the stored value.
C15_DoubleFormatting ==
    (last.op = "stringify" /\ last.ok /\ value_is_double(heap[hs["node"].p].val)) =>
        LET d == heap[hs["node"].p].val.d
            points == {p \in 1..Len(out) : out[p] = "."}
        IN /\ Cardinality(points) = 1
           /\ LET p == CHOOSE q \in points : TRUE
                  frac == SubSeq(out, p + 1, Len(out))
              IN /\ SubSeq(out, 1, p - 1) = NatDigits(d \div 1000000)
                 /\ Len(frac) \in 1..6
                 /\ Len(frac) = 1 \/ frac[Len(frac)] # "0"
                 /\ FractionValue(frac) = d % 1000000

----------------------------------------------------------------------------
(* Element calls: a caller that holds two nodes of any kind and reaches    *)
(* into them with at, contains, the indexed add_*_to_array and operator+.  *)

MaxCalls == 2

\* node::add_node_to_array(const size_t, const node&): (*arr)[index] = node.
add_node_to_array_at(h, this, index, n) ==
    IF ~node_is_array(this)
        THEN [heap |-> h, ok |-> FALSE, node |-> NoNode, err |-> "wrong_type"]
    ELSE IF index >= Len(h[this.p].elems)
        THEN [heap |-> h, ok |-> FALSE, node |-> NoNode, err |-> "wrong_type"]
    ELSE [heap |-> assign_element(h, this.p, index, n), ok |-> TRUE, node |-> n,
          err |-> "none"]

\* node::add_value_to_array(const size_t, const value&):
\* (*arr)[index] = ljson::node(value).
add_value_to_array_at(h, this, index, v) ==
    IF ~node_is_array(this)
        THEN [heap |-> h, ok |-> FALSE, node |-> NoNode, err |-> "wrong_type"]
    ELSE IF index >= Len(h[this.p].elems)
        THEN [heap |-> h, ok |-> FALSE, node |-> NoNode, err |-> "wrong_type"]
    ELSE LET a == Alloc(h, ValueCell(v))
         IN [heap |-> assign_element(a.heap, this.p, index, MkNode("value", a.p)),
             ok |-> TRUE, node |-> MkNode("value", a.p), err |-> "none"]

\* The loops of node::operator+: new_node.add_node_to_key(key, node) for
\* each member, in the map's order; new_node.add_node_to_array(node) for
\* each element.
RECURSIVE plus_members(_, _, _, _)
plus_members(h, new_node, keys, map) ==
    IF keys = <<>> THEN h
    ELSE plus_members(add_node_to_key(h, new_node, Head(keys), map[Head(keys)]).heap,
                      new_node, Tail(keys), map)

RECURSIVE plus_elements(_, _, _)
plus_elements(h, new_node, vector) ==
    IF vector = <<>> THEN h
    ELSE plus_elements(add_node_to_array(h, new_node, Head(vector)).heap, new_node,
                       Tail(vector))

\* node::operator+ that takes the members of this node only.
plus_objects_left(c, this_map, other_map) ==
    [heap |-> plus_members(c.heap, c.node, SortedKeys(DOMAIN this_map), this_map),
     ok |-> TRUE, node |-> c.node, err |-> "none"]

\* node::operator+ on two objects: c is the new node(node_type::object).
plus_objects(c, this_map, other_map) ==
    [heap |-> plus_members(
                  plus_members(c.heap, c.node, SortedKeys(DOMAIN this_map), this_map),
                  c.node, SortedKeys(DOMAIN other_map), other_map),
     ok |-> TRUE, node |-> c.node, err |-> "none"]

\* node::operator+ that puts the elements of the other node first.
plus_arrays_reversed(c, this_vector, other_vector) ==
    [heap |-> plus_elements(plus_elements(c.heap, c.node, other_vector), c.node,
                            this_vector),
     ok |-> TRUE, node |-> c.node, err |-> "none"]

\* node::operator+ on two arrays: c is the new node(node_type::array).
plus_arrays(c, this_vector, other_vector) ==
    [heap |-> plus_elements(plus_elements(c.heap, c.node, this_vector), c.node,
                            other_vector),
     ok |-> TRUE, node |-> c.node, err |-> "none"]

\* new_node = x on the new node(node_type::value).
plus_assign(c, v) ==
    LET a == Alloc(c.heap, ValueCell(v))
    IN [heap |-> a.heap, ok |-> TRUE, node |-> MkNode("value", a.p), err |-> "none"]

\* node::operator+ on two values: strings are joined, numbers are added as
\* doubles, as_string / as_number throw on an operand of another type.
plus_values(h, val, other) ==
    IF val.type = "string"
        THEN IF ~value_try_as(val, "string").ok \/ ~value_try_as(other, "string").ok
                 THEN [heap |-> h, ok |-> FALSE, node |-> NoNode, err |-> "wrong_type"]
                 ELSE plus_assign(node_ctor_type(h, "value"), StringValue(val.s \o other.s))
    ELSE IF val.type = "double_t" \/ val.type = "integer"
        THEN IF ~value_try_as(val, "number").ok \/ ~value_try_as(other, "number").ok
                 THEN [heap |-> h, ok |-> FALSE, node |-> NoNode, err |-> "wrong_type"]
                 ELSE plus_assign(node_ctor_type(h, "value"),
                                  DoubleValue(value_try_as(val, "number").v.d
                                                + value_try_as(other, "number").v.d))
    ELSE [heap |-> h, ok |-> FALSE, node |-> NoNode, err |-> "wrong_type"]

\* node::operator+ that adds the other node's entries to this node and
\* returns it.
node_plus_in_place(h, this, other_node) ==
    IF node_type_of(this) # node_type_of(other_node)
        THEN [heap |-> h, ok |-> FALSE, node |-> NoNode, err |-> "wrong_type"]
    ELSE IF node_is_object(this)
        THEN plus_objects([heap |-> h, node |-> this], <<>>, h[other_node.p].map)
    ELSE IF node_is_array(this)
        THEN plus_arrays([heap |-> h, node |-> this], <<>>, h[other_node.p].elems)
    ELSE plus_values(h, h[this.p].val, h[other_node.p].val)

\* node::operator+ without the comparison of the two types.
node_plus_unchecked(h, this, other_node) ==
    IF node_is_object(this)
        THEN plus_objects(node_ctor_type(h, "object"), h[this.p].map, h[other_node.p].map)
    ELSE IF node_is_array(this)
        THEN plus_arrays(node_ctor_type(h, "array"), h[this.p].elems,
                         h[other_node.p].elems)
    ELSE plus_values(h, h[this.p].val, h[other_node.p].val)

\* node::operator+
node_plus(h, this, other_node) ==
    IF node_type_of(this) # node_type_of(other_node)
        THEN [heap |-> h, ok |-> FALSE, node |-> NoNode, err |-> "wrong_type"]
    ELSE IF node_is_object(this)
        THEN plus_objects(node_ctor_type(h, "object"), h[this.p].map, h[other_node.p].map)
    ELSE IF node_is_array(this)
        THEN plus_arrays(node_ctor_type(h, "array"), h[this.p].elems,
                         h[other_node.p].elems)
    ELSE plus_values(h, h[this.p].val, h[other_node.p].val)

Operands == {"node", "b"}
ElementIndices == {0, 1, 2}

\* A std::map<std::string, int> with the other key.
ArgMapK == MapArg((<<"k">> :> IntegerValue(1)))

\* The nodes a run starts with:
\*   ljson::node node(x);  ljson::node b(y);
\* or, with a member that is itself a container,
\*   ljson::node node(node_type::object);  node.insert("k", x);
ElementArgs ==
    {ValueArg(IntegerValue(5)), ValueArg(StringValue(<<"c">>)), ValueArg(NullValue),
     ValueArg(BooleanValue(TRUE)),
     ArgSeq, SeqArg(<<>>), SeqArg(<<IntegerValue(3)>>), ArgMap, ArgMapK}

ElementNode(h, x, nested) ==
    IF nested
        THEN LET n0 == node_ctor_type(h, "object")
             IN [heap |-> node_insert(n0.heap, n0.node, <<"k">>, x).heap, node |-> n0.node]
        ELSE setting_allowed_node_type(h, x)

ElementTree(x, nested, y) ==
    [node |-> ElementNode(<<>>, x, nested).node,
     b |-> ElementNode(ElementNode(<<>>, x, nested).heap, y, FALSE).node,
     heap |-> ElementNode(ElementNode(<<>>, x, nested).heap, y, FALSE).heap]

\* The record of a call: what was called on which variable with which key,
\* index, operand and literal list, whether it failed and with which error,
\* and the bool contains() returned.
CalledWith(op, h, key, index, other, lit, ok, err, res) ==
    [n |-> last.n + 1, op |-> op, h |-> h, key |-> key, index |-> index,
     other |-> other, lit |-> lit, ok |-> ok, err |-> err, res |-> res]

Called(op, h, key, index, other, ok, err, res) ==
    CalledWith(op, h, key, index, other, <<>>, ok, err, res)

InitElement ==
    /\ \E x \in ElementArgs, nested \in BOOLEAN, y \in ElementArgs :
          /\ heap = ElementTree(x, nested, y).heap
          /\ hs = [h \in HandleNames |->
                     IF h = "node" THEN ElementTree(x, nested, y).node
                     ELSE IF h = "b" THEN ElementTree(x, nested, y).b ELSE NoNode]
    /\ origin = [h \in HandleNames |-> NoOrigin]
    /\ last = [n |-> 0, op |-> "init", h |-> "", key |-> <<>>, index |-> 0,
               other |-> "", lit |-> <<>>, ok |-> TRUE, err |-> "none", res |-> FALSE]
    /\ ParserIdle

\* h.at(key);  the reference is not kept.
At(h, key) ==
    /\ last.n < MaxCalls
    /\ last' = Called("at", h, key, 0, "", node_at_key(heap, hs[h], key).ok,
                      node_at_key(heap, hs[h], key).err, FALSE)
    /\ UNCHANGED <<heap, hs, origin>>
    /\ ParserUnchanged

\* h.at(index);
AtIndex(h, index) ==
    /\ last.n < MaxCalls
    /\ last' = Called("at_index", h, <<>>, index, "",
                      node_at_index(heap, hs[h], index).ok,
                      node_at_index(heap, hs[h], index).err, FALSE)
    /\ UNCHANGED <<heap, hs, origin>>
    /\ ParserUnchanged

\* h.contains(key);
Contains(h, key) ==
    /\ last.n < MaxCalls
    /\ last' = Called("contains", h, key, 0, "", TRUE, "none",
                      node_contains(heap, hs[h], key))
    /\ UNCHANGED <<heap, hs, origin>>
    /\ ParserUnchanged

\* h.add_node_to_array(index, other);
AddNodeToArrayAt(h, index, other) ==
    /\ last.n < MaxCalls
    /\ NoCycle(hs[h], NodeArg(hs[other]))
    /\ heap' = add_node_to_array_at(heap, hs[h], index, hs[other]).heap
    /\ last' = Called("add_node_to_array", h, <<>>, index, other,
                      add_node_to_array_at(heap, hs[h], index, hs[other]).ok,
                      add_node_to_array_at(heap, hs[h], index, hs[other]).err, FALSE)
    /\ UNCHANGED <<hs, origin>>
    /\ ParserUnchanged

\* h.add_value_to_array(index, ljson::value(1));
AddValueToArrayAt(h, index) ==
    /\ last.n < MaxCalls
    /\ heap' = add_value_to_array_at(heap, hs[h], index, IntegerValue(1)).heap
    /\ last' = Called("add_value_to_array", h, <<>>, index, "",
                      add_value_to_array_at(heap, hs[h], index, IntegerValue(1)).ok,
                      add_value_to_array_at(heap, hs[h], index, IntegerValue(1)).err, FALSE)
    /\ UNCHANGED <<hs, origin>>
    /\ ParserUnchanged

\* ljson::node a = h + other;  (a is not made when operator+ throws)
Plus(h, other) ==
    /\ last.n < MaxCalls
    /\ hs["a"] = NoNode
    /\ heap' = node_plus(heap, hs[h], hs[other]).heap
    /\ hs' = IF node_plus(heap, hs[h], hs[other]).ok
                THEN [hs EXCEPT !["a"] = node_plus(heap, hs[h], hs[other]).node]
                ELSE hs
    /\ last' = Called("plus", h, <<>>, 0, other, node_plus(heap, hs[h], hs[other]).ok,
                      node_plus(heap, hs[h], hs[other]).err, FALSE)
    /\ UNCHANGED origin
    /\ ParserUnchanged

NextElement ==
    \/ \E h \in Operands, key \in Keys : At(h, key)
    \/ \E h \in Operands, index \in ElementIndices : AtIndex(h, index)
    \/ \E h \in Operands, key \in Keys : Contains(h, key)
    \/ \E h \in Operands, index \in ElementIndices, other \in Operands :
          AddNodeToArrayAt(h, index, other)
    \/ \E h \in Operands, index \in ElementIndices : AddValueToArrayAt(h, index)
    \/ \E h \in Operands, other \in Operands : Plus(h, other)

SpecElement == InitElement /\ [][NextElement]_vars

----------------------------------------------------------------------------
(* Claims about element calls.                                             *)

\* A call of op was just made.
JustCalled(ops) == last'.n = last.n + 1 /\ last'.op \in ops

C16_Step ==
    JustCalled({"at", "at_index"}) =>
        /\ (last'.op = "at" /\ Content(heap, hs[last'.h]).t = "object"
              /\ last'.key \notin DOMAIN Content(heap, hs[last'.h]).map)
               => (~last'.ok /\ last'.err = "key_not_found")
        /\ (last'.op = "at" /\ Content(heap, hs[last'.h]).t # "object")
               => (~last'.ok /\ last'.err = "wrong_type")
        /\ (last'.op = "at_index" /\ Content(heap, hs[last'.h]).t # "array")
               => (~last'.ok /\ last'.err = "wrong_type")
        /\ ~last'.ok => (heap' = heap /\ hs' = hs)

\* C16: at(key) on an object that lacks the key throws key_not_found; at(key)
\* on a node that is not an object and at(index) on a node that is not an
\* array throw wrong_type; a failing at() leaves the node and its containers
\* as they were.
C16_ElementAccessErrors == [][C16_Step]_vars

\* at(key) has thrown key_not_found on an object without the key.
C16_Witness ==
    /\ last.op = "at"
    /\ ~last.ok
    /\ last.err = "key_not_found"
    /\ node_is_object(hs[last.h])
    /\ last.key \notin DOMAIN heap[hs[last.h].p].map

\* The size of the array a call was made on with an index.
ArraySize(h) == Len(Content(heap, hs[h]).elems)

\* C17: at(index), add_node_to_array(index, n) and add_value_to_array(index,
\* v) on an array with index >= size fail with an error of kind wrong_index.
\* (A failed call leaves the array as it was, so the size is that of the
\* array the call was made on.)
C17_BoundsReportedAsWrongIndex ==
    (/\ last.op \in {"at_index", "add_node_to_array", "add_value_to_array"}
     /\ node_is_array(hs[last.h])
     /\ last.index >= ArraySize(last.h))
        => (~last.ok /\ last.err = "wrong_index")

C18_Step ==
    JustCalled({"insert", "push_back"}) =>
        /\ (last'.op = "insert" /\ Content(heap, hs[last'.h]).t # "object")
               => (~last'.ok /\ last'.err = "wrong_type" /\ heap' = heap /\ hs' = hs)
        /\ (last'.op = "push_back" /\ Content(heap, hs[last'.h]).t # "array")
               => (~last'.ok /\ last'.err = "wrong_type" /\ heap' = heap /\ hs' = hs)
        /\ (last'.op = "insert" /\ Content(heap, hs[last'.h]).t = "object")
               => /\ last'.ok
                  /\ node_at_key(heap', hs'[last'.h], last'.key).ok
                  /\ Content(heap', node_at_key(heap', hs'[last'.h], last'.key).node)
                         = ArgContent(heap, last'.x)
        /\ (last'.op = "push_back" /\ Content(heap, hs[last'.h]).t = "array")
               => /\ last'.ok
                  /\ Content(heap', hs'[last'.h]).elems
                         = Append(Content(heap, hs[last'.h]).elems,
                                  ArgContent(heap, last'.x))

\* C18: insert(key, v) on a node that is not an object and push_back(v) on a
\* node that is not an array return wrong_type and leave the node as it was;
\* on a node of the matching kind they succeed, at(key) then holds v, the
\* last element is v and the elements before it are those of before.
C18_InsertAndPushBack == [][C18_Step]_vars

\* push_back has succeeded on an array that already had elements.
C18_Witness ==
    /\ last.op = "push_back"
    /\ last.ok
    /\ node_is_array(hs[last.h])
    /\ Len(heap[hs[last.h].p].elems) >= 2

C19_Step ==
    JustCalled({"contains"}) =>
        /\ last'.ok
        /\ last'.res = (/\ Content(heap, hs[last'.h]).t = "object"
                        /\ last'.key \in DOMAIN Content(heap, hs[last'.h]).map)
        /\ Content(heap, hs[last'.h]).t \in {"array", "value"} => ~last'.res
        /\ heap' = heap
        /\ hs' = hs

\* C19: contains(key) never fails; it returns true exactly when the node is
\* an object that holds the key, false on every array and every value, and
\* it leaves the node as it was.
C19_ContainsNeverFails == [][C19_Step]_vars

\* contains has answered false on a node that is not an object.
C19_Witness ==
    /\ last.op = "contains"
    /\ ~last.res
    /\ ~node_is_object(hs[last.h])

\* The members of the object a caller variable holds, as trees.
MembersOf(h, n) == Content(h, n).map

\* Both operands of the call are objects and no key is in both.
DisjointObjects(h, this, other) ==
    /\ Content(h, this).t = "object"
    /\ Content(h, other).t = "object"
    /\ DOMAIN MembersOf(h, this) \cap DOMAIN MembersOf(h, other) = {}

C20_Step ==
    (JustCalled({"plus"}) /\ DisjointObjects(heap, hs[last'.h], hs[last'.other])) =>
        /\ last'.ok
        /\ Content(heap', hs'["a"]).t = "object"
        /\ DOMAIN MembersOf(heap', hs'["a"])
               = DOMAIN MembersOf(heap, hs[last'.h]) \cup DOMAIN MembersOf(heap, hs[last'.other])
        /\ \A key \in DOMAIN MembersOf(heap, hs[last'.h]) :
               MembersOf(heap', hs'["a"])[key] = MembersOf(heap, hs[last'.h])[key]
        /\ \A key \in DOMAIN MembersOf(heap, hs[last'.other]) :
               MembersOf(heap', hs'["a"])[key] = MembersOf(heap, hs[last'.other])[key]

\* C20: for two objects a and b with no key in common, a + b is an object
\* whose keys are those of a and those of b, each with the kind and content
\* it has in the operand it came from.
C20_ObjectUnion == [][C20_Step]_vars

\* operator+ has joined two objects that each had a member, with no key in
\* common.
C20_Witness ==
    /\ last.op = "plus"
    /\ last.ok
    /\ DisjointObjects(heap, hs[last.h], hs[last.other])
    /\ MembersOf(heap, hs[last.h]) # <<>>
    /\ MembersOf(heap, hs[last.other]) # <<>>
    /\ node_is_object(hs["a"])

C21_Step ==
    (/\ JustCalled({"plus"})
     /\ Content(heap, hs[last'.h]).t = "array"
     /\ Content(heap, hs[last'.other]).t = "array") =>
        /\ last'.ok
        /\ Content(heap', hs'["a"]).t = "array"
        /\ Len(Content(heap', hs'["a"]).elems)
               = Len(Content(heap, hs[last'.h]).elems)
                     + Len(Content(heap, hs[last'.other]).elems)
        /\ Content(heap', hs'["a"]).elems
               = Content(heap, hs[last'.h]).elems \o Content(heap, hs[last'.other]).elems

\* C21: for two arrays of lengths m and n, a + b is an array of length m + n
\* whose first m elements are those of a in order and whose last n elements
\* are those of b in order.
C21_ArrayConcatenation == [][C21_Step]_vars

\* operator+ has joined two arrays that hold different elements.
C21_Witness ==
    /\ last.op = "plus"
    /\ last.ok
    /\ node_is_array(hs[last.h])
    /\ node_is_array(hs[last.other])
    /\ Len(heap[hs[last.h].p].elems) = 2
    /\ Len(heap[hs[last.other].p].elems) = 1
    /\ Len(heap[hs["a"].p].elems) = 3

\* The scalar kinds operator+ joins: two numbers, or two strings.
Addable(v, w) ==
    \/ value_is_number(v) /\ value_is_number(w)
    \/ value_is_string(v) /\ value_is_string(w)

\* The operands operator+ has no result for: nodes of different kinds, or
\* two values that are neither both numbers nor both strings.
Incompatible(h, this, other) ==
    \/ Content(h, this).t # Content(h, other).t
    \/ /\ Content(h, this).t = "value"
       /\ Content(h, other).t = "value"
       /\ ~Addable(Content(h, this).val, Content(h, other).val)

C22_Step ==
    (JustCalled({"plus"}) /\ Incompatible(heap, hs[last'.h], hs[last'.other])) =>
        /\ ~last'.ok
        /\ last'.err = "wrong_type"
        /\ hs' = hs
        /\ heap' = heap

\* C22: a + b throws wrong_type when a and b are of different kinds (object,
\* array, value) and when both are values that are neither both numbers nor
\* both strings; no node results.
C22_PlusWrongType == [][C22_Step]_vars

\* operator+ has thrown on two values of the same scalar kind, booleans or
\* nulls.
C22_Witness ==
    /\ last.op = "plus"
    /\ ~last.ok
    /\ last.h # last.other
    /\ node_is_value(hs[last.h])
    /\ node_is_value(hs[last.other])
    /\ value_is_boolean(heap[hs[last.h].p].val) \/ value_is_null(heap[hs[last.h].p].val)
    /\ heap[hs[last.other].p].val = heap[hs[last.h].p].val
    /\ hs["a"] = NoNode

C23_Step ==
    JustCalled({"set"}) =>
        /\ last'.ok
        /\ Content(heap', hs'[last'.h]) = ArgContent(heap, last'.x)
        /\ last'.x.c = "value" =>
               /\ node_is_value(hs'[last'.h])
               /\ heap'[hs'[last'.h].p].val.type = last'.x.v.type
        /\ last'.x.c = "map" =>
               /\ node_is_object(hs'[last'.h])
               /\ DOMAIN heap'[hs'[last'.h].p].map = DOMAIN last'.x.m
        /\ last'.x.c = "seq" =>
               /\ node_is_array(hs'[last'.h])
               /\ Len(heap'[hs'[last'.h].p].elems) = Len(last'.x.q)
               /\ \A i \in 1..Len(last'.x.q) :
                      heap'[heap'[hs'[last'.h].p].elems[i].p].val = last'.x.q[i]

\* C23: after n = v or n.set(v), whatever kind n had, n has the kind and
\* content of v: a scalar gives a value of that scalar kind, a key/value
\* container an object with its pairs, a sequence container an array with
\* its elements in order, another node that node's kind and content.
C23_KindChangeByAssignment == [][C23_Step]_vars

\* A node has been set to a sequence container, after a node was set to the
\* null scalar.
C23_Witness ==
    /\ last.op = "set"
    /\ last.n = 2
    /\ last.x.c = "seq"
    /\ node_is_array(hs[last.h])
    /\ \E p \in 1..Len(heap) : heap[p].k = "value" /\ heap[p].val.type = "null"

----------------------------------------------------------------------------
(* Literals: a node built from, or extended by, a braced list whose items  *)
(* are std::any.                                                           *)

\* A std::any by the C++ type it holds and what it holds: a bool, a double
\* (in millionths), an integer, a text, or a node.
StdAny(type, b, d, n, str, node) ==
    [type |-> type, b |-> b, d |-> d, n |-> n, str |-> str, node |-> node]

AnyBool(b) == StdAny("bool", b, 0, 0, <<>>, NoNode)
AnyDouble(d) == StdAny("double", FALSE, d, 0, <<>>, NoNode)
AnyFloat(d) == StdAny("float", FALSE, d, 0, <<>>, NoNode)
AnyInt(n) == StdAny("int", FALSE, 0, n, <<>>, NoNode)
AnyLong(n) == StdAny("long", FALSE, 0, n, <<>>, NoNode)
AnyCString(str) == StdAny("const char*", FALSE, 0, 0, str, NoNode)
AnyString(str) == StdAny("std::string", FALSE, 0, 0, str, NoNode)
AnyNull == StdAny("null_type", FALSE, 0, 0, <<>>, NoNode)
AnyNode(node) == StdAny("ljson::node", FALSE, 0, 0, <<>>, node)

\* node::handle_std_any: what is handed to insert_func, a node or the value
\* set_value_type made of the any_cast, or the thrown error for a type that
\* is none of the listed ones.
handle_std_any(any_value) ==
    IF any_value.type = "ljson::node"
        THEN [ok |-> TRUE, err |-> "none", is_node |-> TRUE, value |-> EmptyValue]
    ELSE IF any_value.type = "bool"
        THEN [ok |-> TRUE, err |-> "none", is_node |-> FALSE,
              value |-> BooleanValue(any_value.b)]
    ELSE IF any_value.type = "double"
        THEN [ok |-> TRUE, err |-> "none", is_node |-> FALSE,
              value |-> DoubleValue(any_value.d)]
    ELSE IF any_value.type = "int"
        THEN [ok |-> TRUE, err |-> "none", is_node |-> FALSE,
              value |-> IntegerValue(any_value.n)]
    ELSE IF any_value.type = "float"
        THEN [ok |-> TRUE, err |-> "none", is_node |-> FALSE,
              value |-> DoubleValue(any_value.d)]
    ELSE IF any_value.type = "const char*"
        THEN [ok |-> TRUE, err |-> "none", is_node |-> FALSE,
              value |-> StringValue(any_value.str)]
    ELSE IF any_value.type = "std::string"
        THEN [ok |-> TRUE, err |-> "none", is_node |-> FALSE,
              value |-> StringValue(any_value.str)]
    ELSE IF any_value.type = "null_type"
        THEN [ok |-> TRUE, err |-> "none", is_node |-> FALSE, value |-> NullValue]
    ELSE [ok |-> FALSE, err |-> "wrong_type", is_node |-> FALSE, value |-> EmptyValue]

\* insert_func of the object literal: map->insert(key, val) for a node,
\* map->insert(key, ljson::node(val)) for a value.
insert_func_pairs(h, p, key, any_value, handled) ==
    IF handled.is_node THEN object_insert(h, p, key, any_value.node)
    ELSE object_insert(Alloc(h, ValueCell(handled.value)).heap, p, key,
                       MkNode("value", Alloc(h, ValueCell(handled.value)).p))

\* insert_func of the array literal: vector->push_back.
insert_func_values(h, p, any_value, handled) ==
    IF handled.is_node THEN array_push_back(h, p, any_value.node)
    ELSE array_push_back(Alloc(h, ValueCell(handled.value)).heap, p,
                         MkNode("value", Alloc(h, ValueCell(handled.value)).p))

\* The loop over the pairs: it ends at the first item handle_std_any throws
\* on, with what was inserted before it left in the object.
RECURSIVE for_pairs(_, _, _)
for_pairs(h, p, pairs) ==
    IF pairs = <<>> THEN [heap |-> h, ok |-> TRUE, err |-> "none"]
    ELSE IF ~handle_std_any(Head(pairs).second).ok
        THEN [heap |-> h, ok |-> FALSE, err |-> handle_std_any(Head(pairs).second).err]
    ELSE for_pairs(insert_func_pairs(h, p, Head(pairs).first, Head(pairs).second,
                                     handle_std_any(Head(pairs).second)),
                   p, Tail(pairs))

\* The loop over the bare values.
RECURSIVE for_values(_, _, _)
for_values(h, p, val) ==
    IF val = <<>> THEN [heap |-> h, ok |-> TRUE, err |-> "none"]
    ELSE IF ~handle_std_any(Head(val)).ok
        THEN [heap |-> h, ok |-> FALSE, err |-> handle_std_any(Head(val)).err]
    ELSE for_values(insert_func_values(h, p, Head(val), handle_std_any(Head(val))),
                    p, Tail(val))

\* node::node(const std::initializer_list<std::pair<std::string, std::any>>&)
\* and node::node(const std::initializer_list<std::any>&): c is the node
\* the member initializer made; no node exists when the constructor throws.
node_ctor_list(c, looped) ==
    [heap |-> looped.heap, ok |-> looped.ok, err |-> looped.err,
     node |-> IF looped.ok THEN c.node ELSE NoNode]

node_ctor_pairs(h, pairs) ==
    node_ctor_list(node_ctor_type(h, "object"),
                   for_pairs(node_ctor_type(h, "object").heap,
                             node_ctor_type(h, "object").node.p, pairs))

node_ctor_values(h, val) ==
    node_ctor_list(node_ctor_type(h, "array"),
                   for_values(node_ctor_type(h, "array").heap,
                              node_ctor_type(h, "array").node.p, val))

\* node::operator+=(const std::initializer_list<std::pair<std::string,
\* std::any>>&)
plus_assign_pairs(h, this, pairs) ==
    IF ~node_is_object(this) THEN [heap |-> h, ok |-> FALSE, err |-> "wrong_type"]
    ELSE for_pairs(h, this.p, pairs)

\* node::operator+=(const std::initializer_list<std::any>&)
plus_assign_values(h, this, val) ==
    IF ~node_is_array(this) THEN [heap |-> h, ok |-> FALSE, err |-> "wrong_type"]
    ELSE for_values(h, this.p, val)

Pair(first, second) == [first |-> first, second |-> second]

\* The object literals the caller writes; b is the caller's other node.
PairLists(b) ==
    {<<Pair(<<"k">>, AnyInt(5)), Pair(<<"j">>, AnyCString(<<"c">>))>>,
     <<Pair(<<"k">>, AnyBool(FALSE)), Pair(<<"j">>, AnyNull)>>,
     <<Pair(<<"j">>, AnyDouble(1500000)), Pair(<<"k">>, AnyNode(b))>>,
     <<Pair(<<"k">>, AnyFloat(500000)), Pair(<<"k">>, AnyString(<<"s">>))>>,
     <<Pair(<<"j">>, AnyInt(1)), Pair(<<"k">>, AnyLong(5))>>}

\* The array literals the caller writes.
ValueLists(b) ==
    {<<AnyDouble(1500000), AnyInt(2), AnyCString(<<"s">>)>>,
     <<AnyBool(TRUE), AnyNull, AnyNode(b)>>,
     <<AnyString(<<"t">>), AnyFloat(500000)>>,
     <<AnyInt(1), AnyLong(2)>>}

\* A literal does not name a node that holds the node it is added to.
NoCycleIn(this, items) ==
    \A i \in 1..Len(items) :
        items[i].type = "ljson::node" => this.p \notin Reach(heap, items[i].node)

Seconds(pairs) == [i \in 1..Len(pairs) |-> pairs[i].second]

\* ljson::node a = { {key, any}, ... };
ConstructPairs(pairs) ==
    /\ last.n < MaxCalls
    /\ hs["a"] = NoNode
    /\ heap' = node_ctor_pairs(heap, pairs).heap
    /\ hs' = IF node_ctor_pairs(heap, pairs).ok
                THEN [hs EXCEPT !["a"] = node_ctor_pairs(heap, pairs).node]
                ELSE hs
    /\ last' = CalledWith("construct_pairs", "a", <<>>, 0, "", pairs,
                          node_ctor_pairs(heap, pairs).ok,
                          node_ctor_pairs(heap, pairs).err, FALSE)
    /\ UNCHANGED origin
    /\ ParserUnchanged

\* ljson::node a = { any, ... };
ConstructValues(val) ==
    /\ last.n < MaxCalls
    /\ hs["a"] = NoNode
    /\ heap' = node_ctor_values(heap, val).heap
    /\ hs' = IF node_ctor_values(heap, val).ok
                THEN [hs EXCEPT !["a"] = node_ctor_values(heap, val).node]
                ELSE hs
    /\ last' = CalledWith("construct_values", "a", <<>>, 0, "", val,
                          node_ctor_values(heap, val).ok,
                          node_ctor_values(heap, val).err, FALSE)
    /\ UNCHANGED origin
    /\ ParserUnchanged

\* h += ljson::object_pairs{ {key, any}, ... };
PlusAssignPairs(h, pairs) ==
    /\ last.n < MaxCalls
    /\ NoCycleIn(hs[h], Seconds(pairs))
    /\ heap' = plus_assign_pairs(heap, hs[h], pairs).heap
    /\ last' = CalledWith("plus_assign_pairs", h, <<>>, 0, "", pairs,
                          plus_assign_pairs(heap, hs[h], pairs).ok,
                          plus_assign_pairs(heap, hs[h], pairs).err, FALSE)
    /\ UNCHANGED <<hs, origin>>
    /\ ParserUnchanged

\* h += ljson::array_values{ any, ... };
PlusAssignValues(h, val) ==
    /\ last.n < MaxCalls
    /\ NoCycleIn(hs[h], val)
    /\ heap' = plus_assign_values(heap, hs[h], val).heap
    /\ last' = CalledWith("plus_assign_values", h, <<>>, 0, "", val,
                          plus_assign_values(heap, hs[h], val).ok,
                          plus_assign_values(heap, hs[h], val).err, FALSE)
    /\ UNCHANGED <<hs, origin>>
    /\ ParserUnchanged

\* node.insert(key, x);  x an int or the caller's other node.
InsertKey(key, x) ==
    /\ last.n < MaxCalls
    /\ NoCycle(hs["node"], x)
    /\ heap' = node_insert(heap, hs["node"], key, x).heap
    /\ last' = CalledWith("insert", "node", key, 0, "", <<x>>,
                          node_insert(heap, hs["node"], key, x).ok,
                          node_insert(heap, hs["node"], key, x).err, FALSE)
    /\ UNCHANGED <<hs, origin>>
    /\ ParserUnchanged

NextLiteral ==
    \/ \E pairs \in PairLists(hs["b"]) : ConstructPairs(pairs)
    \/ \E val \in ValueLists(hs["b"]) : ConstructValues(val)
    \/ \E pairs \in PairLists(hs["b"]) : PlusAssignPairs("node", pairs)
    \/ \E val \in ValueLists(hs["b"]) : PlusAssignValues("node", val)
    \/ \E key \in Keys, x \in {ValueArg(IntegerValue(1)), NodeArg(hs["b"])} :
          InsertKey(key, x)
    \/ Plus("node", "b")

SpecLiteral == InitElement /\ [][NextLiteral]_vars

----------------------------------------------------------------------------
(* Claims about literals.                                                  *)

\* The tree a listed item stands for: a string, an integral or a floating
\* number, a boolean, the null marker, or the tree of a nested node.
LiteralTree(h, item) ==
    IF item.type = "ljson::node" THEN Content(h, item.node)
    ELSE IF item.type \in {"const char*", "std::string"} THEN ScalarTree(StringValue(item.str))
    ELSE IF item.type \in {"int", "long"} THEN ScalarTree(IntegerValue(item.n))
    ELSE IF item.type \in {"double", "float"} THEN ScalarTree(DoubleValue(item.d))
    ELSE IF item.type = "bool" THEN ScalarTree(BooleanValue(item.b))
    ELSE ScalarTree(NullValue)

\* The item listed last under a key.
ListedUnder(pairs, key) ==
    pairs[CHOOSE i \in 1..Len(pairs) :
              /\ pairs[i].first = key
              /\ \A j \in (i + 1)..Len(pairs) : pairs[j].first # key].second

ListedKeys(pairs) == {pairs[i].first : i \in 1..Len(pairs)}

\* The object under n holds every listed key with the listed value.
HoldsPairs(h, n, pairs) ==
    /\ Content(h, n).t = "object"
    /\ ListedKeys(pairs) \subseteq DOMAIN Content(h, n).map
    /\ \A key \in ListedKeys(pairs) :
           Content(h, n).map[key] = LiteralTree(h, ListedUnder(pairs, key))

\* The array under n ends with the listed values, in the listed order.
EndsWithValues(h, n, val) ==
    /\ Content(h, n).t = "array"
    /\ Len(Content(h, n).elems) >= Len(val)
    /\ \A i \in 1..Len(val) :
           Content(h, n).elems[Len(Content(h, n).elems) - Len(val) + i]
               = LiteralTree(h, val[i])

\* C24: a node built from a list of key/value pairs, or an object extended
\* by one with +=, holds every listed key with a value of the listed kind;
\* a node built from a list of bare values is the array of the listed values
\* in the listed order, and += on an array appends them in that order; this
\* for items that are strings, integral or floating numbers, booleans, the
\* null marker or nodes; += on a node of the other kind throws wrong_type.
C24_LiteralConstruction ==
    /\ last.op = "construct_pairs" =>
           (last.ok /\ HoldsPairs(heap, hs["a"], last.lit)
              /\ DOMAIN Content(heap, hs["a"]).map = ListedKeys(last.lit))
    /\ last.op = "construct_values" =>
           (last.ok /\ EndsWithValues(heap, hs["a"], last.lit)
              /\ Len(Content(heap, hs["a"]).elems) = Len(last.lit))
    /\ (last.op = "plus_assign_pairs" /\ node_is_object(hs[last.h])) =>
           (last.ok /\ HoldsPairs(heap, hs[last.h], last.lit))
    /\ (last.op = "plus_assign_values" /\ node_is_array(hs[last.h])) =>
           (last.ok /\ EndsWithValues(heap, hs[last.h], last.lit))
    /\ (last.op = "plus_assign_pairs" /\ ~node_is_object(hs[last.h])) =>
           (~last.ok /\ last.err = "wrong_type")
    /\ (last.op = "plus_assign_values" /\ ~node_is_array(hs[last.h])) =>
           (~last.ok /\ last.err = "wrong_type")

\* The entries of an object other than those under the given keys are what
\* they were.
OthersKept(before, after, keys) ==
    \A key \in DOMAIN before \ keys : key \in DOMAIN after /\ after[key] = before[key]

C25_Step ==
    /\ (/\ JustCalled({"insert"})
        /\ Content(heap, hs[last'.h]).t = "object"
        /\ last'.key \in DOMAIN MembersOf(heap, hs[last'.h])) =>
           /\ last'.ok
           /\ DOMAIN MembersOf(heap', hs'[last'.h]) = DOMAIN MembersOf(heap, hs[last'.h])
           /\ MembersOf(heap', hs'[last'.h])[last'.key] = ArgContent(heap, last'.lit[1])
           /\ OthersKept(MembersOf(heap, hs[last'.h]), MembersOf(heap', hs'[last'.h]),
                         {last'.key})
    /\ (JustCalled({"plus_assign_pairs"}) /\ last'.ok) =>
           /\ DOMAIN MembersOf(heap', hs'[last'.h])
                  = DOMAIN MembersOf(heap, hs[last'.h]) \cup ListedKeys(last'.lit)
           /\ \A key \in ListedKeys(last'.lit) :
                  MembersOf(heap', hs'[last'.h])[key]
                      = LiteralTree(heap, ListedUnder(last'.lit, key))
           /\ OthersKept(MembersOf(heap, hs[last'.h]), MembersOf(heap', hs'[last'.h]),
                         ListedKeys(last'.lit))
    /\ (/\ JustCalled({"plus"})
        /\ Content(heap, hs[last'.h]).t = "object"
        /\ Content(heap, hs[last'.other]).t = "object") =>
           /\ last'.ok
           /\ DOMAIN MembersOf(heap', hs'["a"])
                  = DOMAIN MembersOf(heap, hs[last'.h])
                        \cup DOMAIN MembersOf(heap, hs[last'.other])
           /\ \A key \in DOMAIN MembersOf(heap, hs[last'.other]) :
                  MembersOf(heap', hs'["a"])[key] = MembersOf(heap, hs[last'.other])[key]
           /\ OthersKept(MembersOf(heap, hs[last'.h]), MembersOf(heap', hs'["a"]),
                         DOMAIN MembersOf(heap, hs[last'.other]))

----------------------------------------------------------------------------
(* Claims about the parser, continued.                                     *)

\* C26: a parse that fails on an unquoted token that is no JSON literal, or
\* on a number with whitespace between its digits, reports an error of kind
\* parsing_error_wrong_type.
C26_BadTokenErrorKind ==
    (Done /\ last.family = "badtoken") =>
        /\ outcome.r = (IF last.op = "parse" THEN "throw" ELSE "error")
        /\ outcome.err = "parsing_error_wrong_type"

\* C27: a '}' that ends a nested object closes that object and no more,
\* whether it comes directly after an unquoted scalar, after a string or
\* after a newline: the members that follow belong to the parent, so that
\* {"a":{"b":1},"c":"y"} parses with c in the root and b in a.
C27_ObjectClose ==
    (Done /\ last.family = "close") =>
        /\ outcome.r = "node"
        /\ Content(heap, outcome.node) = last.tree

\* C28: a '[' after a colon opens an array that becomes the value of the
\* key, a '[' inside an array opens an array that becomes the next element
\* of that array, and the opened array receives what is written up to its
\* ']': {"a":[["x"],"z"],"c":"y"} parses to a -> [["x"], "z"], c -> "y".
C28_ArrayOpen ==
    (Done /\ last.family \in {"arrayopen", "arrayopen_nested"}) =>
        /\ outcome.r = "node"
        /\ Content(heap, outcome.node) = last.tree

\* C29: a value written in double quotes parses to a string scalar that
\* holds the text between the quotes, whatever the text is (digits, true,
\* false, null), as the value of a member and as the element of an array.
C29_QuotedIsString ==
    (Done /\ last.family = "quoted") =>
        /\ outcome.r = "node"
        /\ Content(heap, outcome.node) = last.tree

\* C30: spaces or tabs after an unquoted number, true, false or null end
\* the token, which is stored with the kind and value of its text, and the
\* delimiter that follows (',', '}', ']' or a newline) is handled as it is
\* after the token itself: the document parses to the tree it denotes.
C30_SpaceAfterScalar ==
    (Done /\ last.family = "spaced") =>
        /\ outcome.r = "node"
        /\ Content(heap, outcome.node) = last.tree

\* C31: in every state of a parse, the stack of key frames (data.keys) and
\* the stack of containers (data.json_objs) have the same depth.
C31_StackDepth ==
    (pc \in {"read", "line"}) => Len(data.keys) = Len(data.json_objs)

\* A step of the loop over the line, after which the loop goes on.
LineStep == pc = "line" /\ pc' = "line"

\* C32: every character of the input is given to parsing exactly once, in
\* the order of the input, and the cursor never moves backwards: the
\* position in raw_json never decreases; a turn of the loop over the line
\* leaves the line as it is and moves the cursor data.i forward past no
\* character of the line but the one it was given; and when the input is
\* exhausted no character is left in data.line that was never given to
\* parsing.
C32_Step ==
    /\ pos' >= pos
    /\ LineStep =>
          /\ data'.line = data.line
          /\ data'.i > data.i
          /\ \A k \in (data.i + 1)..(data'.i - 1) : ~(k < Len(data.line))
    /\ (pc = "read" /\ pc' = "done") => data.line = <<>>

C32_SinglePass == [][C32_Step]_vars

----------------------------------------------------------------------------
(* A scalar on its own: ljson::value v; and the calls that set it.         *)

\* The value after v.set_value_type(val, t): set_state writes _type = t
\* before it converts, so a conversion that throws leaves the new tag with
\* the old _value.
value_set_value_type(v, val, t) ==
    IF set_state(val, t).r = "throw" THEN [v EXCEPT !.type = t] ELSE set_state(val, t).v

\* The arguments of the templated constructor and set_value_type: a
\* std::string, an int, a double, a bool, ljson::null.
TypedValues ==
    {StringValue(<<"s">>), IntegerValue(5), DoubleValue(1500000), BooleanValue(TRUE),
     NullValue}

\* The texts given to set_value_type(const std::string&, value_type).
ValueTexts ==
    {<<>>, <<"5">>, <<"1", ".", "5">>, <<".">>, <<"a", "b", "c">>, <<"t", "r", "u", "e">>}

\* The calls of set_value_type(val, t): every text with every value_type,
\* and an integer above LLONG_MAX.
SetValueTypeArgs ==
    {[val |-> val, t |-> t] : val \in ValueTexts, t \in value_types}
        \cup {[val |-> <<"9">> \o LLONG_MAX_digits, t |-> "integer"]}

ValueCalled(op, val, t, r) == [n |-> last.n + 1, op |-> op, val |-> val, t |-> t, r |-> r]

ValueUnchanged == UNCHANGED <<heap, hs, origin, raw_json, pos, pc, outcome, out>>

\* ljson::value v;
InitValue ==
    /\ data = EmptyValue
    /\ last = [n |-> 0, op |-> "value", val |-> <<>>, t |-> "none", r |-> "ok"]
    /\ heap = <<>>
    /\ hs = [h \in HandleNames |-> NoNode]
    /\ origin = [h \in HandleNames |-> NoOrigin]
    /\ raw_json = <<>>
    /\ pos = 0
    /\ pc = "idle"
    /\ outcome = "none"
    /\ out = <<>>

\* v = ljson::value(x);  the templated constructor, then the copy.
ValueCtor(x) ==
    /\ last.n < MaxCalls
    /\ data' = x
    /\ last' = ValueCalled("value", <<>>, x.type, "ok")
    /\ ValueUnchanged

\* v.set_value_type(x);  the templated overload.
SetValue(x) ==
    /\ last.n < MaxCalls
    /\ data' = x
    /\ last' = ValueCalled("set_value", <<>>, x.type, "ok")
    /\ ValueUnchanged

\* v.set_value_type(val, t);  an exception is caught by the caller.
SetValueType(val, t) ==
    /\ last.n < MaxCalls
    /\ data' = value_set_value_type(data, val, t)
    /\ last' = ValueCalled("set_value_type", val, t, set_state(val, t).r)
    /\ ValueUnchanged

NextValue ==
    \/ \E x \in TypedValues : ValueCtor(x)
    \/ \E x \in TypedValues : SetValue(x)
    \/ \E a \in SetValueTypeArgs : SetValueType(a.val, a.t)

SpecValue == InitValue /\ [][NextValue]_vars

\* The value_type that names an alternative of the variant.
KindOf(alt) ==
    CASE alt = "string" -> "string"
      [] alt = "int64" -> "integer"
      [] alt = "double" -> "double_t"
      [] alt = "bool" -> "boolean"
      [] alt = "null_type" -> "null"
      [] alt = "monostate" -> "none"

\* C33: after construction and after every set_value_type call, whether it
\* succeeded, returned an error or threw, the value holds one alternative
\* and type() is the kind of that alternative: string, integer, double_t,
\* boolean, null, or none for the empty value.
C33_TagConsistency ==
    /\ data.alt \in value_alternatives
    /\ data.type = KindOf(data.alt)

\* C34: no step of a parse uses top() or pop() on an empty stack
\* (data.hierarchy, data.keys, data.json_objs): neither the call of parsing
\* for the character under the cursor nor check_unhandled_hierarchy at the
\* end of the input.
C34_NoEmptyStackAccess ==
    /\ (pc = "line" /\ data.i < Len(data.line)) =>
           parsing([d |-> data, h |-> heap]).r # "undefined"
    /\ (pc = "read" /\ ~(pos < Len(raw_json))) =>
           check_unhandled_hierarchy(raw_json, [d |-> data, h |-> heap]).r # "undefined"

\* The brackets of a text outside its strings match: every closer closes
\* the opener that was opened last, and no opener is left (open holds the
\* openers not yet closed; a backslash in a string takes the next character
\* with it).
RECURSIVE BracketsMatch(_, _, _, _)
BracketsMatch(text, i, open, in_string) ==
    IF i > Len(text) THEN open = <<>>
    ELSE IF in_string
        THEN IF text[i] = "\\" THEN BracketsMatch(text, i + 2, open, TRUE)
             ELSE BracketsMatch(text, i + 1, open, text[i] # "\"")
    ELSE IF text[i] = "\"" THEN BracketsMatch(text, i + 1, open, TRUE)
    ELSE IF text[i] \in {"{", "["} THEN BracketsMatch(text, i + 1, Append(open, text[i]), FALSE)
    ELSE IF text[i] = "}"
        THEN open # <<>> /\ open[Len(open)] = "{"
                /\ BracketsMatch(text, i + 1, SubSeq(open, 1, Len(open) - 1), FALSE)
    ELSE IF text[i] = "]"
        THEN open # <<>> /\ open[Len(open)] = "["
                /\ BracketsMatch(text, i + 1, SubSeq(open, 1, Len(open) - 1), FALSE)
    ELSE BracketsMatch(text, i + 1, open, FALSE)

\* C35: a parse returns a node only for a text whose '{' and '[' outside
\* strings are each closed by the matching '}' or ']' in nesting order,
\* with no closer left over: {"a":1}} and an array closed by '}' are
\* rejected.
C35_BracketMatching ==
    (Done /\ outcome.r = "node") => BracketsMatch(raw_json, 1, <<>>, FALSE)

----------------------------------------------------------------------------
(* The two entry points of the parser on one text.                         *)

\* The loop over data.line of both entry points, run to its end: the first
\* call of parsing that is not ok ends it.
RECURSIVE parse_line(_), parse_line_next(_)
parse_line(s) ==
    IF ~(s.d.i < Len(s.d.line)) THEN ReturnTrue(s) ELSE parse_line_next(parsing(s))

parse_line_next(ok) ==
    IF ok.r = "true" THEN parse_line([ok.s EXCEPT !.d.i = @ + 1]) ELSE ok

\* try_parse(const std::string&) from raw_json[p] on: its loop and
\* check_unhandled_hierarchy(raw_json, data).
RECURSIVE try_parse_from(_, _, _), try_parse_chunk(_, _, _), try_parse_next(_, _, _)
try_parse_from(raw, p, s) ==
    IF ~(p < Len(raw)) THEN check_unhandled_hierarchy(raw, s)
    ELSE try_parse_chunk(raw, p, [s EXCEPT !.d.line = Append(@, raw[p + 1])])

try_parse_chunk(raw, p, s) ==
    IF is_line_end(raw[p + 1])
        THEN try_parse_next(raw, p, parse_line([s EXCEPT !.d.i = 0]))
        ELSE try_parse_from(raw, p + 1, s)

try_parse_next(raw, p, ok) ==
    IF ok.r = "true"
        THEN try_parse_from(raw, p + 1, [ok.s EXCEPT !.d.line = <<>>, !.d.line_number = @ + 1])
        ELSE ok

\* try_parse(const std::string&) as a whole.
try_parse_string(raw) == try_parse_from(raw, 0, try_parse_begin)

\* std::getline(*file, data.line) with pos characters of the file read: the
\* line up to the next newline, and the position after that newline.
RECURSIVE getline(_, _, _)
getline(text, p, line) ==
    IF ~(p < Len(text)) THEN [line |-> line, pos |-> p]
    ELSE IF text[p + 1] = "\n" THEN [line |-> line, pos |-> p + 1]
    ELSE getline(text, p + 1, Append(line, text[p + 1]))

\* file->eof() after a line was read: the last getline met the end of the
\* file before a newline.
file_eof == pos = Len(raw_json) /\ raw_json # <<>> /\ top(raw_json) # "\n"

\* ljson::parser::try_parse(path) on a file that holds the text raw_json has
\* been called and stands before its loop.
InitPath ==
    /\ \E doc \in Documents :
          /\ last = [op |-> "try_parse_path", family |-> doc.family, tree |-> doc.tree]
          /\ raw_json = doc.text
    /\ heap = try_parse_begin.h
    /\ data = try_parse_begin.d
    /\ pos = 0
    /\ pc = "getline"
    /\ outcome = NoOutcome
    /\ out = <<>>
    /\ hs = [h \in HandleNames |-> NoNode]
    /\ origin = [h \in HandleNames |-> NoOrigin]

\* while (std::getline(*file, data.line)) with a line to read;
\* data.line += "\n"; and the start of the loop over the line.
GetLine ==
    /\ pc = "getline"
    /\ pos < Len(raw_json)
    /\ data' = [data EXCEPT !.line = Append(getline(raw_json, pos, <<>>).line, "\n"),
                             !.i = 0]
    /\ pos' = getline(raw_json, pos, <<>>).pos
    /\ pc' = "line"
    /\ UNCHANGED <<heap, raw_json, outcome>>
    /\ CallerUnchanged

\* The end of the loop over the line: data.line.clear() unless the file is
\* at its end, data.line_number++.
EndLinePath ==
    /\ pc = "line"
    /\ ~(data.i < Len(data.line))
    /\ data' = [data EXCEPT !.line = IF file_eof THEN @ ELSE <<>>, !.line_number = @ + 1]
    /\ pc' = "getline"
    /\ UNCHANGED <<heap, raw_json, pos, outcome>>
    /\ CallerUnchanged

\* std::getline fails at the end of the file:
\* check_unhandled_hierarchy(data.line, data) and the return.
FinishPath ==
    /\ pc = "getline"
    /\ ~(pos < Len(raw_json))
    /\ FinishReturns(check_unhandled_hierarchy(data.line, [d |-> data, h |-> heap]))
    /\ pc' = "done"
    /\ UNCHANGED <<heap, raw_json, pos>>
    /\ CallerUnchanged

NextPath == GetLine \/ Parsing \/ EndLinePath \/ FinishPath

SpecPath == InitPath /\ [][NextPath]_vars

\* The outcome of a call agrees with what try_parse(const std::string&)
\* leaves: both fail, or both return a node and the trees are equal.
AgreesWith(ok) ==
    IF ok.r = "true"
        THEN outcome.r = "node" /\ Content(heap, outcome.node) = Content(ok.s.h, json_data)
        ELSE outcome.r # "node"

\* C36: try_parse(path) on a file and try_parse(const std::string&) on the
\* text of the file have the same outcome: both fail, or both succeed with
\* equal trees (texts on which the string entry point uses an empty stack
\* are left out).
C36_ChunkingIndependence ==
    (Done /\ try_parse_string(raw_json).r # "undefined") =>
        AgreesWith(try_parse_string(raw_json))

----------------------------------------------------------------------------
(* A tree built through the API, written by dump_to_string and parsed.     *)

\* What the caller stores: a non-negative integer, strings without quote
\* or backslash, a boolean, null, a std::vector<int>, an empty one, a
\* std::map<std::string, std::string>.
RoundTripArgs ==
    {ValueArg(IntegerValue(5)), ValueArg(IntegerValue(0)), ValueArg(StringValue(<<"c">>)),
     ValueArg(StringValue(<<"5">>)), ValueArg(NullValue), ValueArg(BooleanValue(TRUE)),
     ArgSeq, SeqArg(<<>>), ArgMap}

RoundTripCalled(op) == [n |-> last.n + 1, op |-> op]

\* ljson::node node(node_type::object);  ljson::node b(node_type::array);
InitRoundTrip ==
    /\ heap = node_ctor_type(node_ctor_type(<<>>, "object").heap, "array").heap
    /\ hs = [h \in HandleNames |->
               IF h = "node" THEN node_ctor_type(<<>>, "object").node
               ELSE IF h = "b"
                   THEN node_ctor_type(node_ctor_type(<<>>, "object").heap, "array").node
                   ELSE NoNode]
    /\ origin = [h \in HandleNames |-> NoOrigin]
    /\ last = [n |-> 0, op |-> "init"]
    /\ raw_json = <<>>
    /\ pos = 0
    /\ data = <<>>
    /\ pc = "build"
    /\ outcome = NoOutcome
    /\ out = <<>>

BuildUnchanged == UNCHANGED <<hs, origin, raw_json, pos, data, pc, outcome, out>>

\* node.insert(key, x);
BuildInsert(key, x) ==
    /\ pc = "build"
    /\ last.n < MaxCalls
    /\ NoCycle(hs["node"], x)
    /\ heap' = node_insert(heap, hs["node"], key, x).heap
    /\ last' = RoundTripCalled("insert")
    /\ BuildUnchanged

\* b.push_back(x);
BuildPushBack(x) ==
    /\ pc = "build"
    /\ last.n < MaxCalls
    /\ heap' = node_push_back(heap, hs["b"], x).heap
    /\ last' = RoundTripCalled("push_back")
    /\ BuildUnchanged

\* ljson::parser::try_parse(node.dump_to_string()) up to the loop of
\* try_parse: the text is written and handed over, and the parser starts
\* with its own json_data (last.tree keeps the tree that was written).
DumpBuilt ==
    /\ pc = "build"
    /\ out' = dump_to_string(heap, hs["node"])
    /\ raw_json' = dump_to_string(heap, hs["node"])
    /\ last' = [op |-> "try_parse", family |-> "roundtrip",
                tree |-> Content(heap, hs["node"])]
    /\ heap' = try_parse_begin.h
    /\ data' = try_parse_begin.d
    /\ hs' = [h \in HandleNames |-> NoNode]
    /\ pos' = 0
    /\ pc' = "read"
    /\ UNCHANGED <<origin, outcome>>

NextRoundTrip ==
    \/ \E key \in Keys, x \in RoundTripArgs \cup {NodeArg(hs["b"])} : BuildInsert(key, x)
    \/ \E x \in RoundTripArgs : BuildPushBack(x)
    \/ DumpBuilt
    \/ ReadChar
    \/ Parsing
    \/ EndLine
    \/ Finish

SpecRoundTrip == InitRoundTrip /\ [][NextRoundTrip]_vars

\* C37: the text dump_to_string() writes for a tree with an object root,
\* built from objects, arrays (also arrays inside arrays), non-negative
\* integers, booleans, null and strings without quote or backslash, parses,
\* and the parsed tree has the same keys, the same array order and the
\* same scalars as the tree that was written.
C37_RoundTrip ==
    (Done /\ last.family = "roundtrip") =>
        /\ outcome.r = "node"
        /\ Content(heap, outcome.node) = last.tree

----------------------------------------------------------------------------
(* The result of operator+ and its operands.                               *)

\* What the operands hold: a scalar, an array, an object.
PlusArgs == {ValueArg(IntegerValue(5)), ArgSeq, ArgMap}

\*   ljson::node n(kind);  n.insert(key, x);   or   n.push_back(x);
PlusOperand(h, kind, key, x) ==
    [node |-> node_ctor_type(h, kind).node,
     heap |-> IF kind = "object"
                 THEN node_insert(node_ctor_type(h, kind).heap,
                                  node_ctor_type(h, kind).node, key, x).heap
                 ELSE node_push_back(node_ctor_type(h, kind).heap,
                                     node_ctor_type(h, kind).node, x).heap]

\*   ljson::node node(kind);  node.insert("k", x);  (or node.push_back(x);)
\*   ljson::node b(kind);     b.insert(key, y);     (or b.push_back(y);)
InitPlus ==
    /\ \E kind \in {"object", "array"}, x \in PlusArgs, key \in Keys, y \in PlusArgs :
          /\ heap = PlusOperand(PlusOperand(<<>>, kind, <<"k">>, x).heap, kind, key, y).heap
          /\ hs = [h \in HandleNames |->
                     IF h = "node" THEN PlusOperand(<<>>, kind, <<"k">>, x).node
                     ELSE IF h = "b"
                         THEN PlusOperand(PlusOperand(<<>>, kind, <<"k">>, x).heap,
                                          kind, key, y).node
                         ELSE NoNode]
    /\ origin = [h \in HandleNames |-> NoOrigin]
    /\ last = [n |-> 0, op |-> "init", h |-> "", key |-> <<>>, index |-> 0,
               other |-> "", lit |-> <<>>, ok |-> TRUE, err |-> "none", res |-> FALSE]
    /\ ParserIdle

\* The heap after  target.insert(key, ljson::value(9));  where target is
\* what at() returned; nothing is done when at() threw.
insert_at(h, at, key) ==
    IF at.ok THEN node_insert(h, at.node, key, ValueArg(IntegerValue(9)))
    ELSE [heap |-> h, ok |-> FALSE, node |-> NoNode, err |-> at.err]

\* The heap after  target.push_back(ljson::value(9));
push_back_at(h, at) ==
    IF at.ok THEN node_push_back(h, at.node, ValueArg(IntegerValue(9)))
    ELSE [heap |-> h, ok |-> FALSE, node |-> NoNode, err |-> at.err]

\* The result a itself, in the form at() returns a node.
ResultMade == [ok |-> TRUE, node |-> hs["a"], err |-> "none", p |-> 0]

\* a.insert(key, 9);
ResultInsert(key) ==
    /\ last.n < MaxCalls
    /\ hs["a"] # NoNode
    /\ heap' = insert_at(heap, ResultMade, key).heap
    /\ last' = Called("insert", "a", key, 0, "",
                      insert_at(heap, ResultMade, key).ok,
                      insert_at(heap, ResultMade, key).err, FALSE)
    /\ UNCHANGED <<hs, origin>>
    /\ ParserUnchanged

\* a.push_back(9);
ResultPushBack ==
    /\ last.n < MaxCalls
    /\ hs["a"] # NoNode
    /\ heap' = push_back_at(heap, ResultMade).heap
    /\ last' = Called("push_back", "a", <<>>, 0, "",
                      push_back_at(heap, ResultMade).ok,
                      push_back_at(heap, ResultMade).err, FALSE)
    /\ UNCHANGED <<hs, origin>>
    /\ ParserUnchanged

\* a.at(key).insert("j", 9);
ResultAtInsert(key) ==
    /\ last.n < MaxCalls
    /\ hs["a"] # NoNode
    /\ heap' = insert_at(heap, node_at_key(heap, hs["a"], key), <<"j">>).heap
    /\ last' = Called("at_insert", "a", key, 0, "",
                      insert_at(heap, node_at_key(heap, hs["a"], key), <<"j">>).ok,
                      insert_at(heap, node_at_key(heap, hs["a"], key), <<"j">>).err, FALSE)
    /\ UNCHANGED <<hs, origin>>
    /\ ParserUnchanged

\* a.at(key).push_back(9);
ResultAtPushBack(key) ==
    /\ last.n < MaxCalls
    /\ hs["a"] # NoNode
    /\ heap' = push_back_at(heap, node_at_key(heap, hs["a"], key)).heap
    /\ last' = Called("at_push_back", "a", key, 0, "",
                      push_back_at(heap, node_at_key(heap, hs["a"], key)).ok,
                      push_back_at(heap, node_at_key(heap, hs["a"], key)).err, FALSE)
    /\ UNCHANGED <<hs, origin>>
    /\ ParserUnchanged

\* a.at(index).insert("j", 9);
ResultAtIndexInsert(index) ==
    /\ last.n < MaxCalls
    /\ hs["a"] # NoNode
    /\ heap' = insert_at(heap, node_at_index(heap, hs["a"], index), <<"j">>).heap
    /\ last' = Called("at_index_insert", "a", <<>>, index, "",
                      insert_at(heap, node_at_index(heap, hs["a"], index), <<"j">>).ok,
                      insert_at(heap, node_at_index(heap, hs["a"], index), <<"j">>).err, FALSE)
    /\ UNCHANGED <<hs, origin>>
    /\ ParserUnchanged

\* a.at(index).push_back(9);
ResultAtIndexPushBack(index) ==
    /\ last.n < MaxCalls
    /\ hs["a"] # NoNode
    /\ heap' = push_back_at(heap, node_at_index(heap, hs["a"], index)).heap
    /\ last' = Called("at_index_push_back", "a", <<>>, index, "",
                      push_back_at(heap, node_at_index(heap, hs["a"], index)).ok,
                      push_back_at(heap, node_at_index(heap, hs["a"], index)).err, FALSE)
    /\ UNCHANGED <<hs, origin>>
    /\ ParserUnchanged

NextPlus ==
    \/ \E h \in Operands, other \in Operands : Plus(h, other)
    \/ \E key \in Keys : ResultInsert(key)
    \/ ResultPushBack
    \/ \E key \in Keys : ResultAtInsert(key)
    \/ \E key \in Keys : ResultAtPushBack(key)
    \/ \E index \in ElementIndices : ResultAtIndexInsert(index)
    \/ \E index \in ElementIndices : ResultAtIndexPushBack(index)

SpecPlus == InitPlus /\ [][NextPlus]_vars

\* The two operands read the same before and after the step.
OperandsUnchanged ==
    /\ Content(heap', hs'["node"]) = Content(heap, hs["node"])
    /\ Content(heap', hs'["b"]) = Content(heap, hs["b"])

\* The nodes a container holds, as handles.
HeldNodes(h, n) ==
    IF node_is_object(n) THEN {h[n.p].map[key] : key \in DOMAIN h[n.p].map}
    ELSE IF node_is_array(n) THEN {h[n.p].elems[i] : i \in DOMAIN h[n.p].elems}
    ELSE {}

C38_Step ==
    JustCalled({"plus", "insert", "push_back", "at_insert", "at_push_back",
                "at_index_insert", "at_index_push_back"}) => OperandsUnchanged

\* C38: computing c = a + b leaves a and b unchanged, and no later call
\* made through c, insert or push_back on c or on a nested container reached
\* through c.at(...), changes what a or b hold.
C38_PlusIndependent == [][C38_Step]_vars

C38_OwnEntriesStep ==
    /\ JustCalled({"plus", "insert", "push_back"}) => OperandsUnchanged
    /\ (JustCalled({"plus"}) /\ last'.ok) =>
          /\ hs'["a"].p \notin {hs["node"].p, hs["b"].p}
          /\ HeldNodes(heap', hs'["a"])
                 \subseteq HeldNodes(heap, hs[last'.h]) \cup HeldNodes(heap, hs[last'.other])

\* C38, amended: computing c = a + b leaves a and b unchanged and makes c a
\* container of its own, so insert and push_back on c change neither a nor
\* b; the entries of c are the operands' own nodes, so a nested container
\* reached through c.at(...) is shared with the operand it came from.
C38_ResultOwnsItsEntries == [][C38_OwnEntriesStep]_vars

\* After c = a + b, an insert or push_back on c has added an entry to c.
C38_Witness ==
    /\ last.op \in {"insert", "push_back"}
    /\ last.h = "a"
    /\ last.ok
    /\ hs["a"] # NoNode
    /\ HeldNodes(heap, hs["a"]) # {}

\* Both operands are objects and have a key in common.
CollidingObjects(h, this, other) ==
    /\ Content(h, this).t = "object"
    /\ Content(h, other).t = "object"
    /\ DOMAIN MembersOf(h, this) \cap DOMAIN MembersOf(h, other) # {}

C39_Step ==
    (JustCalled({"plus"}) /\ CollidingObjects(heap, hs[last'.h], hs[last'.other])) =>
        /\ last'.ok
        /\ \A key \in DOMAIN MembersOf(heap, hs[last'.h])
                          \cap DOMAIN MembersOf(heap, hs[last'.other]) :
               /\ key \in DOMAIN MembersOf(heap', hs'["a"])
               /\ MembersOf(heap', hs'["a"])[key] = MembersOf(heap, hs[last'.other])[key]
        /\ Cardinality(DOMAIN MembersOf(heap', hs'["a"]))
               = Cardinality(DOMAIN MembersOf(heap, hs[last'.h])
                                 \cup DOMAIN MembersOf(heap, hs[last'.other]))

\* C39: when two objects a and b have a key in common, a + b holds that key
\* once, with the value it has in the right-hand operand b, and a + b has as
\* many entries as there are keys in a or in b.
C39_KeyCollision == [][C39_Step]_vars

\* operator+ has joined two different objects that hold different things
\* under the key k, and the result holds what the right-hand operand held.
C39_Witness ==
    /\ last.op = "plus"
    /\ last.ok
    /\ last.h # last.other
    /\ CollidingObjects(heap, hs[last.h], hs[last.other])
    /\ MembersOf(heap, hs[last.h])[<<"k">>] # MembersOf(heap, hs[last.other])[<<"k">>]
    /\ MembersOf(heap, hs["a"])[<<"k">>] = MembersOf(heap, hs[last.other])[<<"k">>]

----------------------------------------------------------------------------
(* Lookups by key.                                                         *)

\* object::at and object::operator[]: both return _object[key], and
\* std::map::operator[] makes an entry holding a default node (an empty
\* object) when the key has none.
object_subscript(h, p, key) ==
    IF key \in DOMAIN h[p].map
        THEN [heap |-> h, node |-> h[p].map[key]]
        ELSE [heap |-> object_insert(node_ctor_type(h, "object").heap, p, key,
                                     node_ctor_type(h, "object").node),
              node |-> node_ctor_type(h, "object").node]

\* this.as_object()->at(key)  or  (*this.as_object())[key]:  as_object()
\* throws wrong_type on a node that holds no object.
node_as_object_at(h, this, key) ==
    IF ~node_try_as(this, "object").ok
        THEN [heap |-> h, ok |-> FALSE, node |-> NoNode,
              err |-> node_try_as(this, "object").err]
        ELSE [heap |-> object_subscript(h, node_try_as(this, "object").p, key).heap,
              ok |-> TRUE,
              node |-> object_subscript(h, node_try_as(this, "object").p, key).node,
              err |-> "none"]

\* h.as_object()->at(key);  the reference is not kept.
ObjectAt(h, key) ==
    /\ last.n < MaxCalls
    /\ heap' = node_as_object_at(heap, hs[h], key).heap
    /\ last' = Called("object_at", h, key, 0, "", node_as_object_at(heap, hs[h], key).ok,
                      node_as_object_at(heap, hs[h], key).err, FALSE)
    /\ UNCHANGED <<hs, origin>>
    /\ ParserUnchanged

\* (*h.as_object())[key];
ObjectSubscript(h, key) ==
    /\ last.n < MaxCalls
    /\ heap' = node_as_object_at(heap, hs[h], key).heap
    /\ last' = Called("object_subscript", h, key, 0, "",
                      node_as_object_at(heap, hs[h], key).ok,
                      node_as_object_at(heap, hs[h], key).err, FALSE)
    /\ UNCHANGED <<hs, origin>>
    /\ ParserUnchanged

NextLookup ==
    \/ \E h \in Operands, key \in Keys : At(h, key)
    \/ \E h \in Operands, key \in Keys : Contains(h, key)
    \/ \E h \in Operands, key \in Keys : ObjectAt(h, key)
    \/ \E h \in Operands, key \in Keys : ObjectSubscript(h, key)

SpecLookup == InitElement /\ [][NextLookup]_vars

C40_Step ==
    (/\ JustCalled({"at", "contains", "object_at", "object_subscript"})
     /\ Content(heap, hs[last'.h]).t = "object") =>
        MembersOf(heap', hs'[last'.h]) = MembersOf(heap, hs[last'.h])

\* C40: a lookup by key on an object, through node::at(key),
\* node::contains(key), object::at(key) or object::operator[], adds, removes
\* and replaces no entry: the object has the same keys with the same
\* contents after the call as before, also when the key is absent.
C40_LookupsDoNotMutate == [][C40_Step]_vars

====
